---------------------------- MODULE Spec2Model ----------------------------
(* A model of the decoder firmware: the GGM key tree and its channel cache  *)
(* (decode.rs), the flash slot and the subscription store                   *)
(* (decoder_context.rs, flash.rs), and the decode / subscribe / list        *)
(* handlers.  Timestamps are TsBits wide instead of 64 bits; every other    *)
(* width follows from TsBits.                                               *)
EXTENDS Integers, Sequences, FiniteSets, TLC

VARIABLES
    flash,                   \* the FLASH_DATA_ADDRS pages: [body, status]
    power,                   \* "on" | "off" | "panic"
    cache,                   \* RAM: per slot Option<ChannelCache>
    last_decoded_timestamp,  \* RAM: Option<u64>, <<>> is None, <<t>> is Some(t)
    last,                    \* the last handler run: request, result, response
    committed                \* per slot, the object of the last completed
                             \* FlashEntry::set when no later set has begun

vars == <<flash, power, cache, last_decoded_timestamp, last, committed>>

-----------------------------------------------------------------------------
(* Sizes *)

\* Width of a timestamp in bits (u64 in the firmware).
TsBits == 3
\* u64::MAX
MaxTs == 2^TsBits - 1
\* Number of 16-byte flash writes that make up one object body.
BodyChunks == 2
\* Number of slots that hold a subscription in a pre-loaded flash image.
Prefilled == 7

\* A cache one entry short of the depth of the key tree
CACHE_CAPACITY_short == TsBits - 1

MAX_SUBSCRIPTIONS == 8
EMERGENCY_CHANNEL_ID == 0
FRAME_DATA_SIZE == 64
\* ArrayVec<[KeySubtree; 64]>: one entry per level of the tree
CACHE_CAPACITY == TsBits

None == <<>>
Some(x) == <<x>>

Slots == 1..MAX_SUBSCRIPTIONS

-----------------------------------------------------------------------------
(* The key tree.  A key is the path that leads to it: the channel's root    *)
(* secret followed by one bit per derivation step.  One ChaCha20 block of a *)
(* key is 64 bytes: the first 32 are the left child, the last 32 the right. *)

compute_chacha_block(key) == <<Append(key, 0), Append(key, 1)>>

\* FLASH_ENTRY_MAGIC.to_ne_bytes(), 0x11aa0055 little endian
MagicBytes == <<85, 0, 170, 17>>
\* The status word of an erased page
ErasedBytes == <<255, 255, 255, 255>>
\* An erased 16-byte line of a page
ErasedChunk == <<>>

contains(subtree, timestamp) ==
    subtree.lowest_timestamp <= timestamp /\ timestamp <= subtree.highest_timestamp

\* The offset without the depth-0 case: a shift by the full width is a
\* shift by 0
NodeOffset_shift_only(depth) == 2^((TsBits - depth) % TsBits) - 1

\* offset of the highest timestamp of a node at `depth` from its lowest
NodeOffset(depth) ==
    IF depth = 0 THEN MaxTs ELSE 2^(TsBits - depth) - 1

\* CompressedSubscriptionEntry::get_subtree, from subtree index i and
\* current_timestamp on
RECURSIVE get_subtree_from(_, _, _, _)
get_subtree_from(sub, i, current_timestamp, timestamp) ==
    IF i > sub.subtree_count THEN None
    ELSE LET depth == sub.depths[i]
             lowest_timestamp == current_timestamp
             offset == NodeOffset(depth)
             highest_timestamp == lowest_timestamp + offset
         IN IF lowest_timestamp <= timestamp /\ timestamp <= highest_timestamp
            THEN Some([lowest_timestamp |-> lowest_timestamp,
                       highest_timestamp |-> highest_timestamp,
                       key |-> sub.node_keys[i]])
            ELSE get_subtree_from(sub, i + 1, (highest_timestamp + 1) % (MaxTs + 1),
                                  timestamp)

get_subtree(sub, timestamp) == get_subtree_from(sub, 1, sub.start_time, timestamp)

\* CompressedSubscriptionEntry::end_time
RECURSIVE end_time_from(_, _, _)
end_time_from(sub, i, current_timestamp) ==
    IF i > sub.subtree_count THEN (current_timestamp - 1) % (MaxTs + 1)
    ELSE LET highest_timestamp == current_timestamp + NodeOffset(sub.depths[i])
         IN end_time_from(sub, i + 1, (highest_timestamp + 1) % (MaxTs + 1))

end_time(sub) == end_time_from(sub, 1, sub.start_time)

\* The walk of end_time has a step whose lowest_timestamp + offset does not
\* fit the timestamp's width
RECURSIVE end_time_overflows_from(_, _, _)
end_time_overflows_from(sub, i, current_timestamp) ==
    IF i > sub.subtree_count THEN FALSE
    ELSE \/ current_timestamp + NodeOffset(sub.depths[i]) > MaxTs
         \/ end_time_overflows_from(
                sub, i + 1,
                (current_timestamp + NodeOffset(sub.depths[i]) + 1) % (MaxTs + 1))

end_time_overflows(sub) == end_time_overflows_from(sub, 1, sub.start_time)

\* The midsections from (upper + lower) / 2: the sum is taken in the width
\* of a timestamp
Midsections_of_sum(subtree) ==
    [lower_midsection |->
         ((subtree.highest_timestamp + subtree.lowest_timestamp) % (MaxTs + 1)) \div 2,
     upper_midsection |->
         (((subtree.highest_timestamp + subtree.lowest_timestamp) % (MaxTs + 1)) \div 2
              + 1) % (MaxTs + 1),
     overflow |-> subtree.highest_timestamp + subtree.lowest_timestamp > MaxTs]

\* region_size, lower_midsection and upper_midsection of the halving loop,
\* in the width of a timestamp, and whether one of the three leaves it
Midsections(subtree) ==
    [lower_midsection |->
         (subtree.lowest_timestamp
              + ((subtree.highest_timestamp - subtree.lowest_timestamp) % (MaxTs + 1))
                    \div 2) % (MaxTs + 1),
     upper_midsection |->
         (subtree.lowest_timestamp
              + ((subtree.highest_timestamp - subtree.lowest_timestamp) % (MaxTs + 1))
                    \div 2 + 1) % (MaxTs + 1),
     overflow |->
         \/ subtree.highest_timestamp < subtree.lowest_timestamp
         \/ subtree.lowest_timestamp
                + (subtree.highest_timestamp - subtree.lowest_timestamp) \div 2 + 1 > MaxTs]

\* The halving loop with the two halves of the expansion swapped
HalveStep_swapped(subtree, timestamp) ==
    LET expanded_key == compute_chacha_block(subtree.key)
        lower_midsection == Midsections(subtree).lower_midsection
        upper_midsection == Midsections(subtree).upper_midsection
    IN IF timestamp <= lower_midsection
       THEN [lowest_timestamp |-> subtree.lowest_timestamp,
             highest_timestamp |-> lower_midsection,
             key |-> expanded_key[2]]
       ELSE [lowest_timestamp |-> upper_midsection,
             highest_timestamp |-> subtree.highest_timestamp,
             key |-> expanded_key[1]]

\* One pass of the halving loop of derive_decoder_key_for_timestamp
HalveStep(subtree, timestamp) ==
    LET expanded_key == compute_chacha_block(subtree.key)
        lower_midsection == Midsections(subtree).lower_midsection
        upper_midsection == Midsections(subtree).upper_midsection
    IN IF timestamp <= lower_midsection
       THEN [lowest_timestamp |-> subtree.lowest_timestamp,
             highest_timestamp |-> lower_midsection,
             key |-> expanded_key[1]]
       ELSE [lowest_timestamp |-> upper_midsection,
             highest_timestamp |-> subtree.highest_timestamp,
             key |-> expanded_key[2]]

RECURSIVE Halve(_, _, _)

\* The halving loop that pushes the node it halves in place of the half
Halve_push_parent(subtree, cache_entries, timestamp) ==
    IF subtree.lowest_timestamp = subtree.highest_timestamp
    THEN [result |-> "Ok", key |-> subtree.key, cache_entries |-> cache_entries]
    ELSE IF Len(cache_entries) >= CACHE_CAPACITY
         THEN [result |-> "Panic", key |-> <<>>, cache_entries |-> cache_entries]
         ELSE Halve(HalveStep(subtree, timestamp), Append(cache_entries, subtree),
                    timestamp)

\* The halving loop: shrink the subtree to the leaf, pushing every visited
\* node onto the cache.  A push onto a full ArrayVec panics.
Halve(subtree, cache_entries, timestamp) ==
    IF subtree.lowest_timestamp = subtree.highest_timestamp
    THEN [result |-> "Ok", key |-> subtree.key, cache_entries |-> cache_entries]
    ELSE IF Len(cache_entries) >= CACHE_CAPACITY
         THEN [result |-> "Panic", key |-> <<>>, cache_entries |-> cache_entries]
         ELSE LET next == HalveStep(subtree, timestamp)
              IN Halve(next, Append(cache_entries, next), timestamp)

\* The deepest cache entry, whether or not it contains timestamp
CacheMatch_deepest(cache_entries, timestamp) == Len(cache_entries)

\* The cache entry derive resumes from: the deepest one that contains timestamp
CacheMatch(cache_entries, timestamp) ==
    CHOOSE i \in 1..Len(cache_entries) :
        /\ contains(cache_entries[i], timestamp)
        /\ \A j \in (i + 1)..Len(cache_entries) : ~contains(cache_entries[j], timestamp)

\* derive that keeps the whole cache on a hit
derive_decoder_key_for_timestamp_keep_tail(sub, cache_entries, timestamp) ==
    IF Len(cache_entries) > 0 /\ contains(cache_entries[1], timestamp)
    THEN LET i == CacheMatch(cache_entries, timestamp)
         IN Halve(cache_entries[i], cache_entries, timestamp)
    ELSE LET found == get_subtree(sub, timestamp)
         IN IF found = None
            THEN [result |-> "NoTimestampFound", key |-> <<>>, cache_entries |-> <<>>]
            ELSE Halve(found[1], <<>>, timestamp)

\* derive_decoder_key_for_timestamp
derive_decoder_key_for_timestamp(sub, cache_entries, timestamp) ==
    IF Len(cache_entries) > 0 /\ contains(cache_entries[1], timestamp)
    THEN LET i == CacheMatch(cache_entries, timestamp)
         IN Halve(cache_entries[i], SubSeq(cache_entries, 1, i), timestamp)
    ELSE LET found == get_subtree(sub, timestamp)
         IN IF found = None
            THEN [result |-> "NoTimestampFound", key |-> <<>>, cache_entries |-> <<>>]
            ELSE Halve(found[1], <<>>, timestamp)

-----------------------------------------------------------------------------
(* The authority that issues subscriptions and encodes frames.  It holds    *)
(* one key tree per channel, rooted at the full timestamp range.            *)

\* The i-th bit of timestamp t, counted from the most significant one
TsBit(t, i) == (t \div 2^(TsBits - i)) % 2

\* The key of the tree node of channel c at `depth` whose range starts at lo
NodeKey(c, depth, lo) == <<c>> \o [i \in 1..depth |-> TsBit(lo, i)]

\* The leaf key of timestamp t: the walk from the full-range root to leaf t
LeafKey(c, t) == NodeKey(c, TsBits, t)

\* The depth of the widest aligned node that starts at lo and ends by e
WidestDepth(lo, e) ==
    CHOOSE d \in 0..TsBits :
        /\ lo % 2^(TsBits - d) = 0 /\ lo + 2^(TsBits - d) - 1 <= e
        /\ \A d2 \in 0..(d - 1) :
               ~(lo % 2^(TsBits - d2) = 0 /\ lo + 2^(TsBits - d2) - 1 <= e)

\* The depths of the canonical aligned cover of [lo, e], lowest node first
RECURSIVE CoverDepths(_, _)
CoverDepths(lo, e) ==
    LET d == WidestDepth(lo, e)
        hi == lo + 2^(TsBits - d) - 1
    IN IF hi = e THEN <<d>> ELSE <<d>> \o CoverDepths(hi + 1, e)

\* The lowest timestamp of the i-th node of a cover that starts at s
RECURSIVE CoverLowest(_, _, _)
CoverLowest(s, depths, i) ==
    IF i = 1 THEN s
    ELSE CoverLowest(s, depths, i - 1) + 2^(TsBits - depths[i - 1])

\* The verifying key of channel c.  Owners below 0 are not channels: -1 is
\* the subscription authority, -2 an attacker, -3 bytes that are no key.
PublicKeyOf(c) == [owner |-> c, valid |-> TRUE]

\* The subscription of channel c for [s, e] as the decoder stores it
Subscription(c, s, e) ==
    LET depths == CoverDepths(s, e)
    IN [public_key |-> PublicKeyOf(c),
        start_time |-> s,
        channel_id |-> c,
        subtree_count |-> Len(depths),
        depths |-> depths,
        node_keys |-> [i \in 1..Len(depths) |->
                          NodeKey(c, depths[i], CoverLowest(s, depths, i))]]

-----------------------------------------------------------------------------
(* The flash slot: FlashEntry<T> on one page.                                *)

\* The write loop that drops the object's last line
Chunks_short(object) ==
    [i \in 1..BodyChunks |-> IF i = BodyChunks THEN ErasedChunk ELSE <<i, object>>]

\* bytes_of(object), cut into the 16-byte lines Flash::write programs
Chunks(object) == [i \in 1..BodyChunks |-> <<i, object>>]

\* An erase that stops short of the status word at the end of the page
erase_page_body(page) ==
    [page EXCEPT !.body = [i \in 1..BodyChunks |-> ErasedChunk]]

\* Flash::erase_page
erase_page(page) ==
    [body |-> [i \in 1..BodyChunks |-> ErasedChunk], status |-> ErasedBytes]

\* Flash::write16 of line i of the body
write16(page, i, chunk) == [page EXCEPT !.body[i] = chunk]

\* Flash::write of the status word
write_status(page, bytes) == [page EXCEPT !.status = bytes]

\* Number of flash operations of one FlashEntry::set
SetSteps == BodyChunks + 2

\* FlashEntry::set with the status word written right after the erase
SetStep_status_first(page, object, k) ==
    IF k = 1 THEN erase_page(page)
    ELSE IF k = 2 THEN write_status(page, MagicBytes)
    ELSE write16(page, k - 2, Chunks(object)[k - 2])

\* The k-th flash operation of FlashEntry::set(object): erase the page, write
\* the body line by line, write the status word
SetStep(page, object, k) ==
    IF k = 1 THEN erase_page(page)
    ELSE IF k <= BodyChunks + 1 THEN write16(page, k - 1, Chunks(object)[k - 1])
    ELSE write_status(page, MagicBytes)

\* The page after the first k flash operations of FlashEntry::set(object)
RECURSIVE SetPrefix(_, _, _)
SetPrefix(page, object, k) ==
    IF k = 0 THEN page ELSE SetStep(SetPrefix(page, object, k - 1), object, k)

\* FlashEntry::set
FlashEntry_set(page, object) == SetPrefix(page, object, SetSteps)

\* FlashEntry::has_object
has_object(page) == page.status = MagicBytes

\* Every line of the body is the matching line of one object
Intact(body) ==
    \A i \in 1..BodyChunks :
        /\ body[i] # ErasedChunk
        /\ body[i][1] = i
        /\ body[i][2] = body[1][2]

\* What the page's bytes read as when they are not the bytes of one object:
\* the header fields come from line 1, the rest is no issued subscription
TornEntry(body) ==
    [public_key |-> [owner |-> -3, valid |-> FALSE],
     start_time |-> MaxTs,
     channel_id |-> IF body[1] = ErasedChunk THEN -1 ELSE body[1][2].channel_id,
     subtree_count |-> 0,
     depths |-> <<>>,
     node_keys |-> <<>>]

\* (self.address as *const T).as_ref(): the page's body read as an object
from_bytes(body) == IF Intact(body) THEN body[1][2] ELSE TornEntry(body)

\* FlashEntry::get
FlashEntry_get(page) == IF has_object(page) THEN Some(from_bytes(page.body)) ELSE None

-----------------------------------------------------------------------------
(* The subscription store: DecoderContext.subscriptions                     *)

\* ChannelInfo::channel_id
channel_id(page) ==
    IF FlashEntry_get(page) = None THEN None
    ELSE Some(FlashEntry_get(page)[1].channel_id)

\* The lowest index in idxs, as iter().find() returns the first match
First(idxs) == CHOOSE i \in idxs : \A j \in idxs : i <= j

\* A lookup that never matches
get_channel_info_for_id_blind(fl, cid) == None

\* DecoderContext::get_channel_info_for_id: the slot index, or None
get_channel_info_for_id(fl, cid) ==
    LET hits == {i \in DOMAIN fl : channel_id(fl[i]) = Some(cid)}
    IN IF hits = {} THEN None ELSE Some(First(hits))

\* DecoderContext::find_empty_channel_info: the slot index, or None
find_empty_channel_info(fl) ==
    LET hits == {i \in DOMAIN fl : channel_id(fl[i]) = None}
    IN IF hits = {} THEN None ELSE Some(First(hits))

\* ChannelCache::new; VerifyingKey::from_bytes fails on an invalid key
ChannelCache_new(public_key) == [public_key |-> public_key, cache_entries |-> <<>>]

\* update_subscription that looks for an empty slot first
update_choice_empty_first(fl, own) ==
    IF find_empty_channel_info(fl) # None THEN find_empty_channel_info(fl) ELSE own

\* The slot update_subscription writes, or None when the store is full:
\* the channel's own slot when `own` is one, else the first empty slot
update_choice(fl, own) == IF own # None THEN own ELSE find_empty_channel_info(fl)

update_target(fl, sub) == update_choice(fl, get_channel_info_for_id(fl, sub.channel_id))

\* The flash write that leaves the slot's cache as it was
set_subscription_keep_cache(fl, ca, i, sub) ==
    [result |-> IF sub.public_key.valid THEN "Ok" ELSE "Panic",
     flash |-> [fl EXCEPT ![i] = FlashEntry_set(fl[i], sub)],
     cache |-> IF ca[i] = None THEN [ca EXCEPT ![i] = Some(ChannelCache_new(sub.public_key))]
               ELSE ca]

\* ChannelInfo::set_subscription on slot i: the flash write, then the cache
set_subscription(fl, ca, i, sub) ==
    IF ~sub.public_key.valid
    THEN [result |-> "Panic",
          flash |-> [fl EXCEPT ![i] = FlashEntry_set(fl[i], sub)], cache |-> ca]
    ELSE [result |-> "Ok",
          flash |-> [fl EXCEPT ![i] = FlashEntry_set(fl[i], sub)],
          cache |-> [ca EXCEPT ![i] = Some(ChannelCache_new(sub.public_key))]]

\* update_subscription once the slot is chosen
update_at(fl, ca, target, sub) ==
    IF target = None
    THEN [result |-> "TooManySubscriptions", flash |-> fl, cache |-> ca]
    ELSE set_subscription(fl, ca, target[1], sub)

\* Icc::disable, as an operation of the hardware
Icc_disable == <<"icc_disable">>

\* An enable that only sets the enable bit
Icc_enable_bit_only == <<"icc_enable">>

\* Icc::enable: disable, invalidate, then the enable bit
Icc_enable == <<"icc_disable", "icc_invalidate", "icc_enable">>

\* The k-th flash operation of FlashEntry::set, by name
SetOp(k) ==
    IF k = 1 THEN "erase_page"
    ELSE IF k <= BodyChunks + 1 THEN "write16"
    ELSE "write_status"

\* The operations of update_subscription on the instruction cache
\* controller and on the flash, in order: an invalid key stops it, by a
\* panic, after the flash write
update_subscription_hal(fl, sub) ==
    Icc_disable
    \o (IF update_target(fl, sub) = None THEN <<>> ELSE [k \in 1..SetSteps |-> SetOp(k)])
    \o (IF update_target(fl, sub) # None /\ ~sub.public_key.valid THEN <<>> ELSE Icc_enable)

\* DecoderContext::update_subscription
update_subscription(fl, ca, sub) == update_at(fl, ca, update_target(fl, sub), sub)

\* DecoderContext::get_subscription_for_channel: the slot index, or None
get_subscription_for_channel(fl, cid) == get_channel_info_for_id(fl, cid)

\* DecoderContext::list_channels
RECURSIVE list_from(_, _)
list_from(fl, i) ==
    IF i > Len(fl) THEN <<>>
    ELSE LET entry == FlashEntry_get(fl[i])
         IN (IF entry = None THEN <<>>
             ELSE <<[channel_id |-> entry[1].channel_id,
                     start_time |-> entry[1].start_time,
                     end_time |-> end_time(entry[1])]>>)
            \o list_from(fl, i + 1)

\* The listing that takes the occupied slots to be the first ones
list_channels_dense(fl) ==
    list_from(SubSeq(fl, 1, Cardinality({i \in 1..Len(fl) : FlashEntry_get(fl[i]) # None})), 1)

list_channels(fl) == list_from(fl, 1)

\* Caches that come up holding the first node of their subscription
BootCaches_first_node(fl) ==
    [i \in DOMAIN fl |->
        IF FlashEntry_get(fl[i]) = None THEN None
        ELSE Some([public_key |-> FlashEntry_get(fl[i])[1].public_key,
                   cache_entries |->
                       <<[lowest_timestamp |-> FlashEntry_get(fl[i])[1].start_time,
                          highest_timestamp |-> FlashEntry_get(fl[i])[1].start_time
                              + NodeOffset(FlashEntry_get(fl[i])[1].depths[1]),
                          key |-> FlashEntry_get(fl[i])[1].node_keys[1]]>>])]

\* ChannelInfo::new for every page: the caches DecoderContext::new builds
BootCaches(fl) ==
    [i \in DOMAIN fl |->
        IF FlashEntry_get(fl[i]) = None THEN None
        ELSE Some(ChannelCache_new(FlashEntry_get(fl[i])[1].public_key))]

\* DecoderContext::new panics when a stored public key does not parse
BootPanics(fl) ==
    \E i \in DOMAIN fl :
        FlashEntry_get(fl[i]) # None /\ ~FlashEntry_get(fl[i])[1].public_key.valid

-----------------------------------------------------------------------------
(* The payload envelope: signature, nonce, tag, ciphertext, associated     *)
(* data.  The primitives are symbolic: a signature is who signed what, a    *)
(* ciphertext is what was encrypted under which key and nonce, a tag is     *)
(* what it authenticates.  len_ok says the payload is long enough to hold   *)
(* the header and the associated data.                                      *)

\* Ed25519 signature of message under the signing key of owner
Sign(owner, message) == [message |-> message, owner |-> owner]

\* VerifyingKey::verify
verify(public_key, message, signature) ==
    public_key.valid /\ signature = Sign(public_key.owner, message)

\* XChaCha20 of plaintext under (key, nonce)
Encrypt(key, nonce, plaintext) ==
    [key |-> key, nonce |-> nonce, plaintext |-> plaintext]

\* What a ciphertext decrypts to under another key or nonce
Scrambled == <<-1>>

\* XChaCha20 of ciphertext under (key, nonce)
Decrypt(key, nonce, ciphertext) ==
    IF ciphertext.key = key /\ ciphertext.nonce = nonce
    THEN ciphertext.plaintext ELSE Scrambled

\* Poly1305 tag of (associated_data, ciphertext) under (key, nonce)
Poly1305Tag(key, nonce, associated_data, ciphertext) ==
    [associated_data |-> associated_data, ciphertext |-> ciphertext,
     key |-> key, nonce |-> nonce]

\* A signed message that leaves out the nonce and the tag
message_to_verify_body(payload) ==
    <<0, 0, payload.ciphertext, payload.associated_data>>

\* &payload[SIGNATURE_LENGTH..]: everything after the signature
message_to_verify(payload) ==
    <<payload.chacha_nonce, payload.poly1305_tag, payload.ciphertext,
      payload.associated_data>>

\* crypto::get_decoder_payload_associated_data
get_decoder_payload_associated_data(payload) ==
    IF payload.len_ok THEN Some(payload.associated_data) ELSE None

\* crypto::decrypt_decoder_payload: Some(plaintext), or None for
\* InvalidEncoderPayload
decrypt_decoder_payload(payload, symmetric_key, public_key) ==
    IF ~payload.len_ok THEN None
    ELSE IF ~verify(public_key, message_to_verify(payload), payload.signature)
    THEN None
    ELSE IF payload.poly1305_tag
              # Poly1305Tag(symmetric_key, payload.chacha_nonce,
                            payload.associated_data, payload.ciphertext)
    THEN None
    ELSE Some(Decrypt(symmetric_key, payload.chacha_nonce, payload.ciphertext))

\* The payload buffer after decrypt_decoder_payload: decrypt_in_place_detached
\* puts the plaintext where the ciphertext was once the tag has matched
decrypt_in_place(payload, symmetric_key, public_key) ==
    IF decrypt_decoder_payload(payload, symmetric_key, public_key) = None
    THEN payload
    ELSE [payload EXCEPT !.ciphertext =
             decrypt_decoder_payload(payload, symmetric_key, public_key)[1]]

\* The encoder's encryption: nonce, tag, ciphertext, associated data
SealBody(key, nonce, associated_data, plaintext) ==
    [associated_data |-> associated_data,
     chacha_nonce |-> nonce,
     ciphertext |-> Encrypt(key, nonce, plaintext),
     len_ok |-> TRUE,
     poly1305_tag |-> Poly1305Tag(key, nonce, associated_data,
                                  Encrypt(key, nonce, plaintext)),
     signature |-> None]

\* Encrypt-then-sign as the encoder and the authority do it: the signature
\* is over what the decoder verifies it against
Signed(owner, body) ==
    [body EXCEPT !.signature = Sign(owner, message_to_verify(body))]

Seal(owner, key, nonce, associated_data, plaintext) ==
    Signed(owner, SealBody(key, nonce, associated_data, plaintext))

\* secrets.channels[&0].root_key
CHANNEL0_ENC_KEY == <<EMERGENCY_CHANNEL_ID>>
\* CHANNEL0_PUBLIC_KEY, parsed by DecoderContext::new
emergency_channel_public_key == PublicKeyOf(EMERGENCY_CHANNEL_ID)

-----------------------------------------------------------------------------
(* The frame pipeline: decode.rs                                            *)

\* A failed key lookup
NoKeys(result, ca) ==
    [result |-> result, symmetric_key |-> <<>>, public_key |-> <<>>, cache |-> ca]

\* get_keys_for_channel, its last step: d is what
\* derive_decoder_key_for_timestamp returned for the subscription of slot i
keys_of_derive(ca, i, d) ==
    [result |-> d.result,
     symmetric_key |-> d.key,
     public_key |-> ca[i][1].public_key,
     cache |-> [ca EXCEPT ![i] = Some([ca[i][1] EXCEPT !.cache_entries = d.cache_entries])]]

\* The lookup that leaves the range of the subscription to the derivation
keys_of_subscription_no_range(ca, i, subscription, timestamp) ==
    keys_of_derive(ca, i, derive_decoder_key_for_timestamp(
                              subscription, ca[i][1].cache_entries, timestamp))

\* get_keys_for_channel once the channel's slot i and subscription are found
keys_of_subscription(ca, i, subscription, timestamp) ==
    IF timestamp < subscription.start_time \/ timestamp > end_time(subscription)
    THEN NoKeys("InvalidTimestamp", ca)
    ELSE keys_of_derive(ca, i, derive_decoder_key_for_timestamp(
                                   subscription, ca[i][1].cache_entries, timestamp))

\* get_keys_for_channel for a channel other than the emergency one: found is
\* what get_subscription_for_channel returned
keys_of_lookup(fl, ca, found, timestamp) ==
    IF found = None THEN NoKeys("InvalidSubscription", ca)
    ELSE keys_of_subscription(ca, found[1], FlashEntry_get(fl[found[1]])[1], timestamp)

\* The lookup without the emergency branch: every channel needs a slot
get_keys_for_channel_lookup_only(fl, ca, cid, timestamp) ==
    keys_of_lookup(fl, ca, get_subscription_for_channel(fl, cid), timestamp)

\* get_keys_for_channel: the result, the keys and the caches it leaves
get_keys_for_channel(fl, ca, cid, timestamp) ==
    IF cid = EMERGENCY_CHANNEL_ID
    THEN [result |-> "Ok", symmetric_key |-> CHANNEL0_ENC_KEY,
          public_key |-> emergency_channel_public_key, cache |-> ca]
    ELSE keys_of_lookup(fl, ca, get_subscription_for_channel(fl, cid), timestamp)

\* The slice taken one byte early: it starts at the frame_len byte
FrameBody_from_len(plaintext) == SubSeq(plaintext, 1, plaintext[1])

\* The frame's bytes the Decode response carries
FrameBody(plaintext) == SubSeq(plaintext, 2, 1 + plaintext[1])

\* The monotonic check with < for <=: a replay of the last frame passes
non_monotonic_strict(ldt, timestamp) == ldt # None /\ timestamp < ldt[1]

\* The monotonic check at the head of decode
non_monotonic(ldt, timestamp) == ldt # None /\ timestamp <= ldt[1]

\* The assignment of last_decoded_timestamp placed before try_from_bytes
after_timestamp_update_early(result) ==
    result \in {"Ok", "MessageError", "Panic", "CastError"}

\* The assignment of last_decoded_timestamp placed before
\* decrypt_decoder_payload
after_timestamp_update_unverified(result) ==
    result \in {"Ok", "MessageError", "Panic", "CastError", "InvalidEncoderPayload"}

\* The results of decode that are reached after the assignment of
\* last_decoded_timestamp: the assignment follows try_from_bytes and precedes
\* the slice of frame_data and message.write()
after_timestamp_update(result) == result \in {"Ok", "MessageError", "Panic"}

\* decode from try_from_bytes on: frame_data is what decrypt_decoder_payload
\* returned.  acks: the host acknowledges the response's header and chunks.
decode_plaintext(ca, frame_data, acks) ==
    IF frame_data = None
    THEN [result |-> "InvalidEncoderPayload", cache |-> ca, response |-> None]
    ELSE IF Len(frame_data[1]) # 1 + FRAME_DATA_SIZE
    THEN [result |-> "CastError", cache |-> ca, response |-> None]
    ELSE IF frame_data[1][1] > FRAME_DATA_SIZE
    THEN [result |-> "Panic", cache |-> ca, response |-> None]
    ELSE IF ~acks
    THEN [result |-> "MessageError", cache |-> ca, response |-> None]
    ELSE [result |-> "Ok", cache |-> ca, response |-> Some(FrameBody(frame_data[1]))]

\* decode from decrypt_decoder_payload on: keys is what get_keys_for_channel
\* returned
decode_with_keys(keys, frame, acks) ==
    IF keys.result # "Ok"
    THEN [result |-> keys.result, cache |-> keys.cache, response |-> None]
    ELSE decode_plaintext(keys.cache,
             decrypt_decoder_payload(frame, keys.symmetric_key, keys.public_key), acks)

\* decode up to its result, before last_decoded_timestamp is settled: the
\* result, the caches it leaves and the body of the Decode response when one
\* was written in full
decode_run(fl, ca, ldt, frame, acks) ==
    IF get_decoder_payload_associated_data(frame) = None
    THEN [result |-> "InvalidEncoderPayload", cache |-> ca, response |-> None]
    ELSE IF non_monotonic(ldt, frame.associated_data.timestamp)
    THEN [result |-> "NonMonotonicTimestamp", cache |-> ca, response |-> None]
    ELSE decode_with_keys(
             get_keys_for_channel(fl, ca, frame.associated_data.channel_number,
                                  frame.associated_data.timestamp),
             frame, acks)

\* The last_decoded_timestamp decode leaves when decode_run ended as r
decode_commit(r, ldt, timestamp) ==
    [result |-> r.result, cache |-> r.cache, response |-> r.response,
     last_decoded_timestamp |->
         IF after_timestamp_update(r.result) THEN Some(timestamp) ELSE ldt]

\* decode
decode(fl, ca, ldt, frame, acks) ==
    decode_commit(decode_run(fl, ca, ldt, frame, acks), ldt,
                  frame.associated_data.timestamp)

-----------------------------------------------------------------------------
(* The subscription pipeline: subscribe.rs                                  *)

DECODER_ID == 1
\* SUBSCRIPTION_ENC_KEY and SUBSCRIPTION_PUBLIC_KEY of this decoder
SUBSCRIPTION_ENC_KEY == <<-1, DECODER_ID>>
subscription_public_key == [owner |-> -1, valid |-> TRUE]

\* The most subtrees a subscription may carry
MAX_SUBTREES == 128

\* The fields of a subscription's plaintext; one that is cut short lacks the
\* later ones
SubscriptionFields ==
    {"public_key", "start_time", "channel_id", "subtree_count", "depths", "node_keys"}

\* read_subscription that takes any channel_id
read_subscription_any_channel(data) ==
    IF data = None THEN [result |-> "InvalidEncoderPayload", entry |-> None]
    ELSE IF DOMAIN data[1] # SubscriptionFields
    THEN [result |-> "CursorError", entry |-> None]
    ELSE IF data[1].subtree_count > MAX_SUBTREES
    THEN [result |-> "Panic", entry |-> None]
    ELSE [result |-> "Ok", entry |-> data]

\* read_subscription: data is what decrypt_decoder_payload returned.  A
\* read past the end of the plaintext is an error; a failed assert! panics.
read_subscription(data) ==
    IF data = None THEN [result |-> "InvalidEncoderPayload", entry |-> None]
    ELSE IF DOMAIN data[1] # SubscriptionFields
    THEN [result |-> "CursorError", entry |-> None]
    ELSE IF data[1].channel_id = EMERGENCY_CHANNEL_ID
    THEN [result |-> "Panic", entry |-> None]
    ELSE IF data[1].subtree_count > MAX_SUBTREES
    THEN [result |-> "Panic", entry |-> None]
    ELSE [result |-> "Ok", entry |-> data]

\* subscribe with the decoder_id compared after the payload is opened
subscribe_parse_open_first(payload) ==
    IF get_decoder_payload_associated_data(payload) = None
    THEN [result |-> "InvalidEncoderPayload", entry |-> None]
    ELSE IF decrypt_decoder_payload(payload, SUBSCRIPTION_ENC_KEY,
                                    subscription_public_key) = None
    THEN [result |-> "InvalidEncoderPayload", entry |-> None]
    ELSE IF payload.associated_data.decoder_id # DECODER_ID
    THEN [result |-> "InvalidSubscription", entry |-> None]
    ELSE read_subscription(decrypt_decoder_payload(
                               payload, SUBSCRIPTION_ENC_KEY, subscription_public_key))

\* subscribe up to the call of update_subscription: the result so far and
\* the entry read_subscription returns
subscribe_parse(payload) ==
    IF get_decoder_payload_associated_data(payload) = None
    THEN [result |-> "InvalidEncoderPayload", entry |-> None]
    ELSE IF payload.associated_data.decoder_id # DECODER_ID
    THEN [result |-> "InvalidSubscription", entry |-> None]
    ELSE read_subscription(decrypt_decoder_payload(
                               payload, SUBSCRIPTION_ENC_KEY, subscription_public_key))

\* subscribe after update_subscription returned `updated`: the Subscribe
\* response.  acks: the host acknowledges the response's header.
subscribe_respond(updated, acks) ==
    IF updated.result = "Ok" /\ ~acks
    THEN [updated EXCEPT !.result = "MessageError"]
    ELSE updated

\* subscribe that sends the Subscribe response before it updates the store
subscribe_entry_respond_first(fl, ca, parsed, acks) ==
    IF parsed.result # "Ok"
    THEN [result |-> parsed.result, flash |-> fl, cache |-> ca]
    ELSE IF ~acks THEN [result |-> "MessageError", flash |-> fl, cache |-> ca]
    ELSE update_subscription(fl, ca, parsed.entry[1])

\* subscribe once subscribe_parse returned `parsed`
subscribe_entry(fl, ca, parsed, acks) ==
    IF parsed.result # "Ok"
    THEN [result |-> parsed.result, flash |-> fl, cache |-> ca]
    ELSE subscribe_respond(update_subscription(fl, ca, parsed.entry[1]), acks)

\* subscribe: the result and the flash and caches it leaves
subscribe(fl, ca, payload, acks) ==
    subscribe_entry(fl, ca, subscribe_parse(payload), acks)

\* subscribe: the payload buffer it leaves
subscribe_buffer(payload) ==
    IF get_decoder_payload_associated_data(payload) = None THEN payload
    ELSE IF payload.associated_data.decoder_id # DECODER_ID THEN payload
    ELSE decrypt_in_place(payload, SUBSCRIPTION_ENC_KEY, subscription_public_key)

-----------------------------------------------------------------------------
(* Requests the host and the authority can make                             *)

ErasedPage == [body |-> [i \in 1..BodyChunks |-> ErasedChunk], status |-> ErasedBytes]

\* The interval of the subscription a pre-loaded flash image holds for c
ImageInterval(c) == IF c % 2 = 1 THEN <<1, MaxTs - 1>> ELSE <<0, MaxTs>>
ImageSub(c) == Subscription(c, ImageInterval(c)[1], ImageInterval(c)[2])

\* Flash after subscribing to channels 1..k in turn on an erased device
Image(k) ==
    [i \in Slots |-> IF i <= k THEN FlashEntry_set(ErasedPage, ImageSub(i)) ELSE ErasedPage]

\* Channels of the subscribe requests: one an image holds, and the next ones
\* up to one more than the store has room for
RequestChannels == {1} \cup ((Prefilled + 1)..(MAX_SUBSCRIPTIONS + 1))
RequestIntervals == {<<0, MaxTs>>, <<2, MaxTs - 2>>}

\* A subscribe payload as the authority issues it for this decoder
SubPayload(c, s, e) ==
    Seal(subscription_public_key.owner, SUBSCRIPTION_ENC_KEY, 0,
         [decoder_id |-> DECODER_ID], Subscription(c, s, e))

\* Channel 1 is renewed for either interval, a new channel is issued in full
IssuedPayloads ==
    {SubPayload(1, iv[1], iv[2]) : iv \in RequestIntervals}
    \cup {SubPayload(c, 0, MaxTs) : c \in RequestChannels \ {1}}

\* Payloads the decoder must refuse: another decoder's, a forged one, one
\* sealed under another key, a truncated one
RefusedPayloads ==
    LET p == SubPayload(1, 0, MaxTs)
    IN {Seal(subscription_public_key.owner, <<-1, DECODER_ID + 1>>, 0,
             [decoder_id |-> DECODER_ID + 1], Subscription(1, 0, MaxTs)),
        [p EXCEPT !.signature = Sign(-2, message_to_verify(p))],
        Seal(subscription_public_key.owner, <<-1, DECODER_ID + 1>>, 0,
             [decoder_id |-> DECODER_ID], Subscription(1, 0, MaxTs)),
        [p EXCEPT !.len_ok = FALSE]}

SubscribePayloads == IssuedPayloads \cup RefusedPayloads

\* Frame bodies the encoder is given: "HELLO" and a full frame
HelloBytes == <<72, 69, 76, 76, 79>>
FullBytes == [i \in 1..FRAME_DATA_SIZE |-> 7]
FrameBodies == {HelloBytes, FullBytes}

\* Frame plaintexts: frame_len, then FRAME_DATA_SIZE bytes of frame_data,
\* the extra bytes zeroed
FramePlaintext(bytes) ==
    <<Len(bytes)>> \o bytes \o [i \in 1..(FRAME_DATA_SIZE - Len(bytes)) |-> 0]
Hello == FramePlaintext(HelloBytes)
FullFrame == FramePlaintext(FullBytes)
\* Plaintexts no encoder emits: a frame_len beyond the data, a short one
OverlongFrame == <<FRAME_DATA_SIZE + 1>> \o FullBytes
ShortPlaintext == <<1, 2>>

\* The key the encoder seals a frame of channel c at timestamp t under
FrameKey(c, t) == IF c = EMERGENCY_CHANNEL_ID THEN CHANNEL0_ENC_KEY ELSE LeafKey(c, t)

\* A frame as the encoder emits it
EncodedFrame(c, t, plaintext) ==
    Seal(PublicKeyOf(c).owner, FrameKey(c, t), 0,
         [channel_number |-> c, timestamp |-> t], plaintext)

\* The encoder's frames for `timestamps`, and for `replayed` also its full
\* frames, what no encoder emits, and what an attacker makes of its frames
FramesOf(channels, timestamps, replayed) ==
    LET good == {EncodedFrame(c, t, Hello) : c \in channels, t \in timestamps}
                \cup {EncodedFrame(c, t, FullFrame) : c \in channels, t \in replayed}
        odd == {EncodedFrame(c, t, pt) : c \in channels, t \in replayed,
                                         pt \in {OverlongFrame, ShortPlaintext}}
        base == {EncodedFrame(c, t, Hello) : c \in channels, t \in replayed}
    IN good \cup odd
       \cup {[f EXCEPT !.signature = Sign(-2, message_to_verify(f))] : f \in base}
       \cup {Seal(PublicKeyOf(c).owner, <<c>>, 0,
                   [channel_number |-> c, timestamp |-> t], Hello) :
                  c \in channels, t \in replayed}
       \cup {[f EXCEPT !.len_ok = FALSE] : f \in base}

NoCaches == [i \in Slots |-> None]

\* The objects of the completed sets that made Image(k)
ImageCommitted(k) == [i \in Slots |-> IF i <= k THEN Some(ImageSub(i)) ELSE None]

-----------------------------------------------------------------------------
(* Actions: one per handler of the main loop, plus power loss and boot      *)

\* The main loop runs subscribe on a Subscribe request
Subscribe(payload, acks) ==
    /\ power = "on"
    /\ \E r \in {subscribe(flash, cache, payload, acks)} :
          /\ flash' = r.flash
          /\ cache' = r.cache
          /\ power' = IF r.result = "Panic" THEN "panic" ELSE "on"
          /\ \E parsed \in {subscribe_parse(payload)} :
                last' = [op |-> "subscribe", result |-> r.result, entry |-> parsed.entry,
                         hal |-> IF parsed.entry = None THEN <<>>
                                 ELSE update_subscription_hal(flash, parsed.entry[1])]
    /\ \E parsed \in {subscribe_parse(payload)} :
          IF parsed.result # "Ok" THEN UNCHANGED committed
          ELSE \E target \in {update_target(flash, parsed.entry[1])} :
                  committed' = IF target = None THEN committed
                               ELSE [committed EXCEPT ![target[1]] = parsed.entry]
    /\ UNCHANGED last_decoded_timestamp

\* Power is lost inside FlashEntry::set, after k of its flash operations
SubscribeCut(payload, k) ==
    /\ power = "on"
    /\ \E parsed \in {subscribe_parse(payload)} :
          /\ parsed.result = "Ok"
          /\ \E target \in {update_target(flash, parsed.entry[1])} :
                /\ target # None
                /\ flash' = [flash EXCEPT ![target[1]] =
                                SetPrefix(flash[target[1]], parsed.entry[1], k)]
                /\ last' = [op |-> "cut", slot |-> target[1], step |-> k,
                            old |-> FlashEntry_get(flash[target[1]]),
                            new |-> parsed.entry[1]]
                /\ committed' = [committed EXCEPT ![target[1]] =
                                     IF k = SetSteps THEN parsed.entry ELSE None]
    /\ power' = "off"
    /\ cache' = NoCaches
    /\ last_decoded_timestamp' = None

\* The main loop runs decode on a Decode request
Decode(frame, acks) ==
    /\ power = "on"
    /\ \E r \in {decode(flash, cache, last_decoded_timestamp, frame, acks)} :
          /\ cache' = r.cache
          /\ last_decoded_timestamp' = r.last_decoded_timestamp
          /\ power' = IF r.result = "Panic" THEN "panic" ELSE "on"
          /\ last' = [op |-> "decode", result |-> r.result, response |-> r.response,
                      channel |-> frame.associated_data.channel_number,
                      timestamp |-> IF frame.len_ok
                                    THEN Some(frame.associated_data.timestamp)
                                    ELSE None]
    /\ UNCHANGED <<flash, committed>>

\* decode's key lookup on its own: get_keys_for_channel for a frame header
GetKeys(channel_number, timestamp) ==
    /\ power = "on"
    /\ \E keys \in {get_keys_for_channel(flash, cache, channel_number, timestamp)} :
          /\ cache' = keys.cache
          /\ power' = IF keys.result = "Panic" THEN "panic" ELSE "on"
          /\ last' = [op |-> "keys", result |-> keys.result,
                      symmetric_key |-> keys.symmetric_key,
                      channel |-> channel_number, timestamp |-> timestamp,
                      carried |-> \E i \in Slots :
                                     /\ channel_id(flash[i]) = Some(channel_number)
                                     /\ cache[i] # None
                                     /\ cache[i][1].cache_entries # <<>>
                                     /\ contains(cache[i][1].cache_entries[1], timestamp)]
    /\ UNCHANGED <<flash, last_decoded_timestamp, committed>>

\* The main loop answers a List request
List(acks) ==
    /\ power = "on"
    /\ last' = [op |-> "list", result |-> IF acks THEN "Ok" ELSE "MessageError",
                response |-> IF acks THEN Some(list_channels(flash)) ELSE None]
    /\ UNCHANGED <<flash, power, cache, last_decoded_timestamp, committed>>

\* Power is lost while no flash write is in progress
PowerCut ==
    /\ power \in {"on", "panic"}
    /\ power' = "off"
    /\ cache' = NoCaches
    /\ last_decoded_timestamp' = None
    /\ last' = [op |-> "power_cut"]
    /\ UNCHANGED <<flash, committed>>

\* Power returns: DecoderContext::new
Boot ==
    /\ power = "off"
    /\ power' = IF BootPanics(flash) THEN "panic" ELSE "on"
    /\ cache' = IF BootPanics(flash) THEN NoCaches ELSE BootCaches(flash)
    /\ last_decoded_timestamp' = None
    /\ UNCHANGED <<flash, last, committed>>

-----------------------------------------------------------------------------
(* The store under power loss: subscribe, list, decode of a few frames      *)

StoreFrames == {EncodedFrame(EMERGENCY_CHANNEL_ID, 1, Hello)}

Init ==
    /\ flash = Image(Prefilled)
    /\ power = "on"
    /\ cache = BootCaches(flash)
    /\ last_decoded_timestamp = None
    /\ last = [op |-> "boot"]
    /\ committed = ImageCommitted(Prefilled)

Next ==
    \/ \E payload \in SubscribePayloads, acks \in BOOLEAN : Subscribe(payload, acks)
    \/ \E payload \in IssuedPayloads, k \in 0..SetSteps : SubscribeCut(payload, k)
    \/ \E frame \in StoreFrames, acks \in BOOLEAN : Decode(frame, acks)
    \/ \E acks \in BOOLEAN : List(acks)
    \/ PowerCut
    \/ Boot

Spec == Init /\ [][Next]_vars

\* A step of the Subscribe action that reached update_subscription
UpdateStep == power = "on" /\ last'.op = "subscribe" /\ last'.entry # None

\* The slots get() reads as occupied by channel c, and as empty
Holders(c) == {i \in Slots : has_object(flash[i])
                              /\ from_bytes(flash[i].body).channel_id = c}
Empties == {i \in Slots : ~has_object(flash[i])}

\* Slot i now holds sub and no other slot changed
OnlyWritten(i, sub) ==
    /\ FlashEntry_get(flash'[i]) = Some(sub)
    /\ \A j \in Slots \ {i} : flash'[j] = flash[j]

\* C4: update_subscription(sub) rewrites exactly the slot that holds
\* sub.channel_id when there is one; otherwise it writes the lowest-indexed
\* empty slot; otherwise it returns TooManySubscriptions and leaves every
\* slot and every channel cache unchanged.
UpdatePolicy ==
    [][UpdateStep =>
          IF Holders(last'.entry[1].channel_id) # {}
          THEN /\ last'.result # "TooManySubscriptions"
               /\ \E i \in Holders(last'.entry[1].channel_id) :
                     OnlyWritten(i, last'.entry[1])
          ELSE IF Empties # {}
          THEN /\ last'.result # "TooManySubscriptions"
               /\ \E i \in Empties :
                     /\ \A j \in Empties : i <= j
                     /\ OnlyWritten(i, last'.entry[1])
          ELSE /\ last'.result = "TooManySubscriptions"
               /\ flash' = flash
               /\ cache' = cache
      ]_vars

\* A ninth channel was refused by a full store
UpdatePolicyWitness ==
    /\ last.op = "subscribe" /\ last.result = "TooManySubscriptions"
    /\ Empties = {}
    /\ last.entry # None /\ Holders(last.entry[1].channel_id) = {}

\* C5: no two occupied slots hold the same channel id, after any sequence of
\* subscribes, decodes, lists, power cuts (also inside a flash write) and
\* reboots.
UniqueChannels ==
    \A i \in Slots, j \in Slots :
        (i # j /\ channel_id(flash[i]) # None)
            => channel_id(flash[i]) # channel_id(flash[j])

\* A slot a power cut emptied was taken by another channel, and the store
\* was written again after that
UniqueChannelsWitness ==
    /\ power = "on" /\ last.op = "subscribe" /\ last.result = "Ok"
    /\ \E i \in 1..Prefilled : channel_id(flash[i]) \notin {None, Some(i)}

\* What get() returns for the slot of the interrupted set
CutSlotReads == FlashEntry_get(flash[last.slot])

\* C6 as stated: after power is lost at any step of FlashEntry::set and the
\* decoder has rebooted, the slot is empty or holds the complete new
\* subscription.
CutLeavesEmptyOrNew ==
    (power = "on" /\ last.op = "cut") => CutSlotReads \in {None, Some(last.new)}

\* C6 amended: after power is lost at any step of FlashEntry::set the slot
\* is empty or holds the complete new subscription, or, when power was lost
\* before the page erase, still holds its previous contents; get() never
\* returns a partially written subscription.
CrashSafeSet ==
    /\ last.op = "cut"
          => \/ CutSlotReads \in {None, Some(last.new)}
             \/ last.step = 0 /\ CutSlotReads = last.old
    /\ \A i \in Slots : has_object(flash[i]) => Intact(flash[i].body)

\* Power was lost after the whole body of a replacement was written and
\* before the status word: the slot reads as empty after reboot
CrashSafeSetWitness ==
    /\ power = "on" /\ last.op = "cut" /\ last.step = SetSteps - 1
    /\ last.old # None
    /\ CutSlotReads = None
    /\ flash[last.slot].body = Chunks(last.new)

\* C7 as stated: after a power cut inside FlashEntry::set and a reboot the
\* slot reads as its prior contents or as the new contents.
CutLeavesPriorOrNew ==
    (power = "on" /\ last.op = "cut") => CutSlotReads \in {last.old, Some(last.new)}

\* C7 amended: from a power cut inside FlashEntry::set on, through the
\* reboot, the slot reads as its prior contents, as empty, or as the new
\* contents, never as anything else.
CutLeavesPriorEmptyOrNew ==
    last.op = "cut" => CutSlotReads \in {last.old, None, Some(last.new)}

\* Power was lost right after the erase of an occupied slot
CutLeavesPriorEmptyOrNewWitness ==
    /\ power = "on" /\ last.op = "cut" /\ last.step = 1
    /\ last.old # None /\ last.old # Some(last.new)
    /\ CutSlotReads = None

\* C8: once a set(x) on a slot has completed and no later set has begun,
\* every get() that returns an object returns x, whatever power losses and
\* reboots came in between.
GetReturnsLastSet ==
    \A i \in Slots :
        (committed[i] # None /\ FlashEntry_get(flash[i]) # None)
            => FlashEntry_get(flash[i]) = committed[i]

\* A subscription stored at run time is read back after a power loss and a
\* reboot
GetReturnsLastSetWitness ==
    /\ power = "on" /\ last.op = "power_cut"
    /\ \E i \in Slots :
          /\ committed[i] # None
          /\ committed[i][1] \notin {ImageSub(c) : c \in Slots}
          /\ FlashEntry_get(flash[i]) = committed[i]

-----------------------------------------------------------------------------
(* Decoding: every frame the encoder can emit for a few channels, and what  *)
(* an attacker makes of them, against a loaded store                        *)

\* The emergency channel, a subscribed channel, a channel without subscription
DecodeChannels == {EMERGENCY_CHANNEL_ID, 1, MAX_SUBSCRIPTIONS + 1}
\* Every timestamp on the channels the decoder has keys for; two timestamps
\* on the channel it has no subscription for
DecodeFrames ==
    FramesOf(DecodeChannels \ {MAX_SUBSCRIPTIONS + 1}, 0..MaxTs, {1, MaxTs - 1})
    \cup FramesOf({MAX_SUBSCRIPTIONS + 1}, {1, MaxTs - 1}, {1})

\* The store after subscribing to channel 2 and then to channel 1, for one
\* of three intervals, on an erased device
InitDecode ==
    /\ \E iv \in RequestIntervals \cup {ImageInterval(1)} :
          flash = [i \in Slots |->
                      IF i = 1 THEN FlashEntry_set(ErasedPage, ImageSub(2))
                      ELSE IF i = 2
                      THEN FlashEntry_set(ErasedPage, Subscription(1, iv[1], iv[2]))
                      ELSE ErasedPage]
    /\ power = "on"
    /\ cache = BootCaches(flash)
    /\ last_decoded_timestamp = None
    /\ last = [op |-> "boot"]
    /\ committed = [i \in Slots |-> FlashEntry_get(flash[i])]

NextDecode ==
    \/ \E frame \in DecodeFrames, acks \in BOOLEAN : Decode(frame, acks)
    \/ PowerCut
    \/ Boot

SpecDecode == InitDecode /\ [][NextDecode]_vars

\* A step of the Decode action: the only step from a powered state that
\* leaves a decode as the last handler run
DecodeStep == power = "on" /\ last'.op = "decode"

\* C1: within one power cycle last_decoded_timestamp never goes back, a
\* successful decode sets it to the frame's timestamp, and every decode
\* request whose timestamp is at most last_decoded_timestamp (any channel,
\* the emergency channel included) returns NonMonotonicTimestamp and leaves
\* it unchanged; so the timestamps of successful decodes strictly increase.
MonotonicRejection ==
    [][DecodeStep =>
          /\ (last_decoded_timestamp # None /\ last'.timestamp # None
                 /\ last'.timestamp[1] <= last_decoded_timestamp[1])
              => (/\ last'.result = "NonMonotonicTimestamp"
                  /\ last_decoded_timestamp' = last_decoded_timestamp)
          /\ last'.result = "Ok"
              => (/\ last_decoded_timestamp' = last'.timestamp
                  /\ last_decoded_timestamp # None
                        => last_decoded_timestamp'[1] > last_decoded_timestamp[1])
          /\ last_decoded_timestamp # None
              => (/\ last_decoded_timestamp' # None
                  /\ last_decoded_timestamp'[1] >= last_decoded_timestamp[1])
      ]_vars

\* A replay of the last decoded timestamp on the emergency channel after a
\* decode on a subscribed channel was rejected
MonotonicRejectionWitness ==
    /\ last.op = "decode" /\ last.result = "NonMonotonicTimestamp"
    /\ last.channel = EMERGENCY_CHANNEL_ID
    /\ last_decoded_timestamp = last.timestamp
    /\ \E i \in Slots : cache[i] # None /\ cache[i][1].cache_entries # <<>>

\* The subscriptions of channel c that are the canonical aligned cover of
\* an interval [s, e] that contains t, by c, s and t
CanonicalCovers ==
    [c \in DecodeChannels \ {EMERGENCY_CHANNEL_ID} |->
        [s \in 0..MaxTs |->
            [t \in 0..MaxTs |->
                IF s <= t THEN {Subscription(c, s, e) : e \in t..MaxTs} ELSE {}]]]

\* Slot i holds the canonical aligned cover of an interval [start, end] of
\* channel c that contains t
CanonicalCoverAt(i, c, t) ==
    /\ c \in DOMAIN CanonicalCovers
    /\ channel_id(flash[i]) = Some(c)
    /\ FlashEntry_get(flash[i])[1].start_time \in 0..MaxTs
    /\ FlashEntry_get(flash[i])[1]
           \in CanonicalCovers[c][FlashEntry_get(flash[i])[1].start_time][t]

\* The encoder's frames of the subscribed channels, by channel, timestamp
\* and body
EncoderFrames ==
    [c \in DecodeChannels \ {EMERGENCY_CHANNEL_ID} |->
        [t \in 0..MaxTs |->
            [bytes \in FrameBodies |-> EncodedFrame(c, t, FramePlaintext(bytes))]]]

\* C2: a frame of a subscribed channel c, sealed by the encoder under the
\* leaf key of its timestamp t and signed with the channel key, with t inside
\* the stored canonical cover and above last_decoded_timestamp, decodes with
\* result Ok when the host acknowledges the response: the Decode response
\* carries exactly the frame's bytes and last_decoded_timestamp becomes t.
DecodeInRange ==
    [][(/\ DecodeStep
        /\ last'.timestamp # None
        /\ ~(/\ last_decoded_timestamp # None
              /\ last'.timestamp[1] <= last_decoded_timestamp[1])
        /\ \E i \in Slots : CanonicalCoverAt(i, last'.channel, last'.timestamp[1]))
       => \A bytes \in FrameBodies :
             Decode(EncoderFrames[last'.channel][last'.timestamp[1]][bytes], TRUE)
                => (/\ last'.result = "Ok"
                    /\ last'.response = Some(bytes)
                    /\ last_decoded_timestamp' = last'.timestamp)
      ]_vars

\* "HELLO" came out of a frame of channel 1 that followed an earlier decode
DecodeInRangeWitness ==
    /\ last.op = "decode" /\ last.result = "Ok" /\ last.channel = 1
    /\ last.response = Some(HelloBytes)
    /\ last.timestamp # None /\ last.timestamp[1] > 2
    /\ last_decoded_timestamp = last.timestamp
    /\ \E i \in Slots : CanonicalCoverAt(i, 1, last.timestamp[1])

\* The results decode returns as errors
DecodeErrors ==
    {"InvalidEncoderPayload", "NonMonotonicTimestamp", "InvalidSubscription",
     "InvalidTimestamp", "NoTimestampFound", "CastError", "MessageError"}

\* C3 as stated: whenever decode returns an error, the failure to emit the
\* Decode response included, last_decoded_timestamp is what it was before
\* the call.
ErrorKeepsTimestamp ==
    [][(DecodeStep /\ last'.result \in DecodeErrors)
          => last_decoded_timestamp' = last_decoded_timestamp]_vars

\* C3 amended: every error decode returns before it emits the Decode response
\* leaves last_decoded_timestamp as it was; when only the emission fails,
\* last_decoded_timestamp is already the frame's timestamp.
ErrorBeforeEmitKeepsTimestamp ==
    [][DecodeStep =>
          /\ last'.result \in DecodeErrors \ {"MessageError"}
              => last_decoded_timestamp' = last_decoded_timestamp
          /\ last'.result = "MessageError"
              => last_decoded_timestamp' = last'.timestamp
      ]_vars

\* The host did not acknowledge the Decode response of a frame newer than
\* any decoded so far
ErrorBeforeEmitKeepsTimestampWitness ==
    /\ last.op = "decode" /\ last.result = "MessageError"
    /\ last_decoded_timestamp = last.timestamp
    /\ last.timestamp # None /\ last.timestamp[1] > 0

-----------------------------------------------------------------------------
(* The key tree: one subscription for every interval, keys looked up for    *)
(* every timestamp in any order                                             *)

KeyTreeChannel == 1

InitKeyTree ==
    /\ \E s \in 0..MaxTs, e \in 0..MaxTs :
          /\ s <= e
          /\ flash = [i \in Slots |->
                         IF i = 1
                         THEN FlashEntry_set(ErasedPage, Subscription(KeyTreeChannel, s, e))
                         ELSE ErasedPage]
    /\ power = "on"
    /\ cache = BootCaches(flash)
    /\ last_decoded_timestamp = None
    /\ last = [op |-> "boot"]
    /\ committed = [i \in Slots |-> FlashEntry_get(flash[i])]

NextKeyTree ==
    \/ \E timestamp \in 0..MaxTs : GetKeys(KeyTreeChannel, timestamp)
    \/ PowerCut
    \/ Boot

SpecKeyTree == InitKeyTree /\ [][NextKeyTree]_vars

\* C9: for a stored subscription that is the canonical cover of [s, e] and a
\* timestamp t in [s, e], the key lookup succeeds and the key derive returns
\* is the leaf key of t: the key at the end of the walk from the full-range
\* root down to t, the lower half taking the first half of each expansion.
KeyTreeRoundTrip ==
    last.op = "keys"
        => \A i \in Slots :
              CanonicalCoverAt(i, last.channel, last.timestamp)
                  => /\ last.result = "Ok"
                     /\ last.symmetric_key = LeafKey(last.channel, last.timestamp)

\* The key of the last timestamp of [1, MaxTs - 1] came from the last node
\* of its cover
KeyTreeRoundTripWitness ==
    /\ last.op = "keys" /\ last.result = "Ok"
    /\ last.timestamp = MaxTs - 1
    /\ FlashEntry_get(flash[1]) = Some(Subscription(KeyTreeChannel, 1, MaxTs - 1))
    /\ FlashEntry_get(flash[1])[1].subtree_count > 2
    /\ last.symmetric_key = LeafKey(KeyTreeChannel, MaxTs - 1)

\* C10: the result and the key of a lookup that ran with the channel cache
\* carried over from the lookups before it are the result and the key of the
\* same lookup run with an empty cache.
CacheIsNoOp ==
    last.op = "keys"
        => /\ last.result
                = get_keys_for_channel(flash, BootCaches(flash),
                                       last.channel, last.timestamp).result
           /\ last.symmetric_key
                = get_keys_for_channel(flash, BootCaches(flash),
                                       last.channel, last.timestamp).symmetric_key

\* A lookup resumed from a cached node and went down to the leaf
CacheIsNoOpWitness ==
    /\ last.op = "keys" /\ last.result = "Ok" /\ last.carried
    /\ \E i \in Slots :
          /\ cache[i] # None
          /\ Len(cache[i][1].cache_entries) > 1

-----------------------------------------------------------------------------
(* The envelope under tampering: a payload the encoder sealed has one of   *)
(* its parts replaced, and decrypt_decoder_payload is applied to it with   *)
(* the key and the public key the sealed payload was made for.             *)

EnvelopeChannels == {EMERGENCY_CHANNEL_ID, 1}
EnvelopeTimestamps == {1, MaxTs - 1}
EnvelopeNonces == {0, 1}

\* A frame as the encoder seals it, with the nonce it drew
SealedFrame(c, t, plaintext, nonce) ==
    Seal(PublicKeyOf(c).owner, FrameKey(c, t), nonce,
         [channel_number |-> c, timestamp |-> t], plaintext)

\* p with one part replaced by that part of q; p with the nonce of q and
\* the tag recomputed by a holder of the key; p re-signed by somebody else;
\* p cut short; p
Tampered(p, q, key) ==
    {[p EXCEPT !.signature = q.signature],
     [p EXCEPT !.chacha_nonce = q.chacha_nonce],
     [p EXCEPT !.poly1305_tag = q.poly1305_tag],
     [p EXCEPT !.ciphertext = q.ciphertext],
     [p EXCEPT !.associated_data = q.associated_data],
     [p EXCEPT !.chacha_nonce = q.chacha_nonce,
               !.poly1305_tag = Poly1305Tag(key, q.chacha_nonce,
                                            p.associated_data, p.ciphertext)],
     [p EXCEPT !.signature = Sign(-2, message_to_verify(p))],
     [p EXCEPT !.len_ok = FALSE],
     p}

\* decrypt_decoder_payload is applied to the payload that came in
Open ==
    /\ power = "on"
    /\ last.op = "received"
    /\ last' = [last EXCEPT
                   !.op = "open",
                   !.result = decrypt_decoder_payload(last.payload,
                                                      last.symmetric_key,
                                                      last.public_key)]
    /\ UNCHANGED <<flash, power, cache, last_decoded_timestamp, committed>>

\* A payload came in: the sealed one it was made from, the one the replaced
\* part was taken from, and the key and public key of the sealed one
Received(sealed, other, payload, symmetric_key, public_key, plaintext) ==
    last = [op |-> "received", sealed |-> sealed, other |-> other,
            payload |-> payload, plaintext |-> plaintext,
            symmetric_key |-> symmetric_key, public_key |-> public_key,
            result |-> None]

InitEnvelope ==
    /\ flash = [i \in Slots |-> ErasedPage]
    /\ power = "on"
    /\ cache = NoCaches
    /\ last_decoded_timestamp = None
    /\ committed = [i \in Slots |-> None]
    /\ \E c \in EnvelopeChannels, t \in EnvelopeTimestamps,
          plaintext \in {Hello, FullFrame}, nonce \in EnvelopeNonces,
          c2 \in EnvelopeChannels, t2 \in EnvelopeTimestamps,
          plaintext2 \in {Hello, FullFrame}, nonce2 \in EnvelopeNonces :
          \E payload \in Tampered(SealedFrame(c, t, plaintext, nonce),
                                  SealedFrame(c2, t2, plaintext2, nonce2),
                                  FrameKey(c, t)) :
             Received(SealedFrame(c, t, plaintext, nonce),
                      SealedFrame(c2, t2, plaintext2, nonce2),
                      payload, FrameKey(c, t), PublicKeyOf(c), plaintext)

NextEnvelope == Open

SpecEnvelope == InitEnvelope /\ [][NextEnvelope]_vars

\* C11: the signature covers the nonce, the tag, the ciphertext and the
\* associated data, so a sealed payload with any part changed (the nonce of
\* another sealed payload for the same channel, timestamp and key included)
\* is refused by decrypt_decoder_payload; the sealed payload itself opens
\* to its plaintext.
EnvelopeAuthentic ==
    last.op = "open"
        => /\ last.payload # last.sealed => last.result = None
           /\ last.payload = last.sealed => last.result = Some(last.plaintext)

\* A payload carrying the nonce of another payload sealed for the same
\* channel, timestamp and key was refused
EnvelopeAuthenticWitness ==
    /\ last.op = "open"
    /\ last.other.associated_data = last.sealed.associated_data
    /\ last.other.chacha_nonce # last.sealed.chacha_nonce
    /\ last.other.ciphertext.plaintext = last.sealed.ciphertext.plaintext
    /\ last.payload = [last.sealed EXCEPT !.chacha_nonce = last.other.chacha_nonce]
    /\ last.result = None

-----------------------------------------------------------------------------
(* Emergency frames and the store                                           *)

\* What the host and the next decode see of a decode: the result, the body
\* of the response, the last decoded timestamp
Outcome(r) == <<r.result, r.response, r.last_decoded_timestamp>>

\* C12: in every state the store reaches by subscribes, replacements, power
\* cuts and reboots, an emergency frame of the encoder that passes the
\* monotonic check decodes successfully, and the outcome of decoding an
\* emergency frame (result, response body, last decoded timestamp) is the
\* outcome of decoding it with every slot empty.
EmergencyIndependent ==
    power = "on"
        => \A t \in 0..MaxTs, acks \in BOOLEAN :
              /\ Outcome(decode(flash, cache, last_decoded_timestamp,
                                EncodedFrame(EMERGENCY_CHANNEL_ID, t, Hello), acks))
                   = Outcome(decode([i \in Slots |-> ErasedPage], NoCaches,
                                    last_decoded_timestamp,
                                    EncodedFrame(EMERGENCY_CHANNEL_ID, t, Hello), acks))
              /\ (acks /\ ~non_monotonic(last_decoded_timestamp, t))
                   => Outcome(decode(flash, cache, last_decoded_timestamp,
                                     EncodedFrame(EMERGENCY_CHANNEL_ID, t, Hello), acks))
                        = <<"Ok", Some(HelloBytes), Some(t)>>

\* An emergency frame was decoded after a subscription had been added to
\* the last empty slot
EmergencyIndependentWitness ==
    /\ power = "on"
    /\ last.op = "decode" /\ last.channel = EMERGENCY_CHANNEL_ID
    /\ last.result = "Ok" /\ last.response = Some(HelloBytes)
    /\ \A i \in Slots : has_object(flash[i])
    /\ \E i \in Slots : FlashEntry_get(flash[i]) # FlashEntry_get(Image(Prefilled)[i])

-----------------------------------------------------------------------------
(* The listing                                                              *)

\* The slots get() reads a subscription from
Occupied == {i \in Slots : FlashEntry_get(flash[i]) # None}

\* C13: a listing has one record per occupied slot and none for an empty
\* one: as many records as occupied slots, at most MAX_SUBSCRIPTIONS, the
\* channel ids listed are the channel ids stored, and each record carries
\* the start_time stored with its channel.
ListComplete ==
    (last.op = "list" /\ last.response # None)
        => /\ Len(last.response[1]) = Cardinality(Occupied)
           /\ Len(last.response[1]) <= MAX_SUBSCRIPTIONS
           /\ {last.response[1][k].channel_id : k \in 1..Len(last.response[1])}
                = {FlashEntry_get(flash[i])[1].channel_id : i \in Occupied}
           /\ \A k \in 1..Len(last.response[1]) :
                 \E i \in Occupied :
                    /\ FlashEntry_get(flash[i])[1].channel_id
                         = last.response[1][k].channel_id
                    /\ FlashEntry_get(flash[i])[1].start_time
                         = last.response[1][k].start_time

\* A listing of a store with an empty slot below an occupied one
ListCompleteWitness ==
    /\ last.op = "list" /\ last.response # None
    /\ \E i \in Slots, j \in Slots :
          i < j /\ i \notin Occupied /\ j \in Occupied
    /\ Len(last.response[1]) > 1

-----------------------------------------------------------------------------
(* The listing of one subscription, for every interval the authority covers *)

NextListing ==
    \/ \E acks \in BOOLEAN : List(acks)
    \/ PowerCut
    \/ Boot

SpecListing == InitKeyTree /\ [][NextListing]_vars

\* The number of timestamps the first i subtrees of a subscription span
RECURSIVE SumWidths(_, _)
SumWidths(sub, i) ==
    IF i = 0 THEN 0 ELSE SumWidths(sub, i - 1) + 2^(TsBits - sub.depths[i])

-----------------------------------------------------------------------------
(* Replacements in a store whose channels are in use: subscribes for        *)
(* channels the store holds, key lookups that fill their caches, listings   *)

ReplaceChannels == {1, 2}
ReplaceTimestamps == {2, MaxTs - 2}
ReplacePayloads ==
    {SubPayload(1, iv[1], iv[2]) : iv \in RequestIntervals}
    \cup {SubPayload(2, 2, MaxTs - 2)}

NextReplace ==
    \/ \E payload \in ReplacePayloads, acks \in BOOLEAN : Subscribe(payload, acks)
    \/ \E c \in ReplaceChannels, t \in ReplaceTimestamps : GetKeys(c, t)
    \/ \E acks \in BOOLEAN : List(acks)
    \/ PowerCut
    \/ Boot

SpecReplace == Init /\ [][NextReplace]_vars

\* C15: update_subscription for a channel the store holds rewrites that
\* channel's slot and resets that slot's cache, and nothing else: the other
\* slots keep their contents and caches, as many slots are occupied as
\* before and none that was occupied is empty, and a listing of the store
\* shows the channel with the new interval.
ReplaceInPlace ==
    [][(UpdateStep /\ Holders(last'.entry[1].channel_id) # {})
          => /\ last'.result \in {"Ok", "MessageError"}
             /\ \E i \in Holders(last'.entry[1].channel_id) :
                   /\ OnlyWritten(i, last'.entry[1])
                   /\ cache'[i] = Some(ChannelCache_new(last'.entry[1].public_key))
                   /\ \A j \in Slots \ {i} : cache'[j] = cache[j]
             /\ Cardinality(Occupied') = Cardinality(Occupied)
             /\ Occupied \subseteq Occupied'
             /\ \E k \in 1..Len(list_channels(flash')) :
                   list_channels(flash')[k]
                     = [channel_id |-> last'.entry[1].channel_id,
                        start_time |-> last'.entry[1].start_time,
                        end_time |-> end_time(last'.entry[1])]
      ]_vars

\* Channel 1 was replaced by a narrower interval while the cache of channel
\* 2 held nodes, and holds them still
ReplaceInPlaceWitness ==
    /\ power = "on"
    /\ last.op = "subscribe" /\ last.result = "Ok"
    /\ last.entry = Some(Subscription(1, 2, MaxTs - 2))
    /\ FlashEntry_get(flash[1]) = last.entry
    /\ cache[1] = Some(ChannelCache_new(PublicKeyOf(1)))
    /\ cache[2] # None /\ cache[2][1].cache_entries # <<>>
    /\ Cardinality(Occupied) = Prefilled

-----------------------------------------------------------------------------
(* Power cycles while no flash write is in progress                         *)

-----------------------------------------------------------------------------
(* Subscribe payloads for another decoder                                   *)

\* Payloads whose decoder_id is not this decoder's: another decoder's own
\* subscription, this decoder's subscription with the decoder_id changed,
\* the same sealed under an attacker's signature, and one whose signature
\* and key are right for this decoder but cover the other decoder_id
OtherDecoderPayloads ==
    {Seal(subscription_public_key.owner, <<-1, DECODER_ID + 1>>, 0,
          [decoder_id |-> DECODER_ID + 1], Subscription(1, 0, MaxTs)),
     [SubPayload(1, 0, MaxTs) EXCEPT !.associated_data = [decoder_id |-> DECODER_ID + 1]],
     Seal(-2, <<-2>>, 0, [decoder_id |-> 0], Subscription(MAX_SUBSCRIPTIONS, 0, MaxTs)),
     Seal(subscription_public_key.owner, SUBSCRIPTION_ENC_KEY, 0,
          [decoder_id |-> DECODER_ID + 1], Subscription(MAX_SUBSCRIPTIONS, 0, MaxTs))}

\* C17: subscribe answers a payload that is long enough to carry a
\* decoder_id, and carries another than DECODER_ID, with
\* InvalidSubscription, whatever its signature and ciphertext are and
\* whether or not the host would acknowledge a response; the payload
\* buffer, the flash slots and the caches are left as they were.
OtherDecoderRefused ==
    [][/\ power = "on"
           => \A payload \in OtherDecoderPayloads, acks \in BOOLEAN :
                 /\ subscribe(flash, cache, payload, acks)
                      = [result |-> "InvalidSubscription",
                         flash |-> flash, cache |-> cache]
                 /\ subscribe_buffer(payload) = payload
       /\ (power = "on" /\ last'.op = "subscribe"
              /\ last'.result = "InvalidSubscription")
           => /\ flash' = flash
              /\ cache' = cache
              /\ power' = "on"
      ]_vars

\* Another decoder's subscription was refused by a store with a free slot
OtherDecoderRefusedWitness ==
    /\ power = "on"
    /\ last.op = "subscribe" /\ last.result = "InvalidSubscription"
    /\ last.entry = None
    /\ Empties # {}

-----------------------------------------------------------------------------
(* A decoder that starts with an empty flash and is sent whatever the       *)
(* authority's key can seal                                                 *)

FreshChannels == {1, 2}

\* A subscribe payload with the authority's signature over any plaintext
SealedPlaintext(plaintext) ==
    Seal(subscription_public_key.owner, SUBSCRIPTION_ENC_KEY, 0,
         [decoder_id |-> DECODER_ID], plaintext)

\* A subscription for the emergency channel, with the authority's signature
\* and with an attacker's
EmergencyPayloads ==
    {SubPayload(EMERGENCY_CHANNEL_ID, 0, MaxTs),
     Seal(-2, SUBSCRIPTION_ENC_KEY, 0, [decoder_id |-> DECODER_ID],
          Subscription(EMERGENCY_CHANNEL_ID, 0, MaxTs))}

\* Authenticated plaintexts that are no subscription: more subtrees than
\* MAX_SUBTREES, and one that ends after start_time
MalformedPayloads ==
    {SealedPlaintext([Subscription(1, 0, MaxTs) EXCEPT !.subtree_count = MAX_SUBTREES + 1]),
     SealedPlaintext([public_key |-> PublicKeyOf(1), start_time |-> 0])}

FreshPayloads ==
    {SubPayload(c, iv[1], iv[2]) : c \in FreshChannels, iv \in RequestIntervals}
    \cup EmergencyPayloads \cup MalformedPayloads

InitFresh ==
    /\ flash = [i \in Slots |-> ErasedPage]
    /\ power = "on"
    /\ cache = BootCaches(flash)
    /\ last_decoded_timestamp = None
    /\ last = [op |-> "boot"]
    /\ committed = [i \in Slots |-> None]

NextFresh ==
    \/ \E payload \in FreshPayloads, acks \in BOOLEAN : Subscribe(payload, acks)
    \/ \E acks \in BOOLEAN : List(acks)
    \/ PowerCut
    \/ Boot

SpecFresh == InitFresh /\ [][NextFresh]_vars

\* C18: from an empty flash, whatever subscribe requests arrive, no occupied
\* slot holds the emergency channel id, and no subscription read_subscription
\* hands to update_subscription is for the emergency channel.
NoEmergencySlot ==
    /\ \A i \in Slots :
          FlashEntry_get(flash[i]) # None
              => FlashEntry_get(flash[i])[1].channel_id # EMERGENCY_CHANNEL_ID
    /\ (last.op = "subscribe" /\ last.entry # None)
          => last.entry[1].channel_id # EMERGENCY_CHANNEL_ID

\* A subscribe was stopped in read_subscription on a decoder that holds two
\* subscriptions
NoEmergencySlotWitness ==
    /\ last.op = "subscribe" /\ last.result = "Panic"
    /\ last.entry = None
    /\ Cardinality(Occupied) = Cardinality(FreshChannels)

\* C19: subscribe returns Ok or an error to the main loop for every
\* authenticated plaintext, and the decoder goes on to the next request: it
\* does not panic, and a subscribe that did not return Ok left the store as
\* it was.
SubscribeTotal ==
    [][(power = "on" /\ last'.op = "subscribe")
          => /\ last'.result # "Panic"
             /\ power' = "on"
             /\ last'.result \notin {"Ok", "MessageError"} => flash' = flash
      ]_vars

-----------------------------------------------------------------------------
(* The order of the checks of decode                                        *)

\* The subscription stored for channel c
StoredFor(c) == FlashEntry_get(flash[CHOOSE i \in Holders(c) : TRUE])[1]

\* The subscription in one of the slots `holders`
StoredIn(holders) == FlashEntry_get(flash[CHOOSE i \in holders : TRUE])[1]

\* The error the checks that follow the lookup owe a frame of timestamp t
\* when sub is the subscription stored for its channel; None when they pass
RangeError(sub, t) ==
    IF t < sub.start_time \/ t > end_time(sub) THEN Some("InvalidTimestamp")
    ELSE IF get_subtree(sub, t) = None THEN Some("NoTimestampFound")
    ELSE None

\* The result of decode is the one a frame with range error e is owed
OwedResult(result, e) ==
    IF e = None
    THEN result \notin {"NonMonotonicTimestamp", "InvalidSubscription",
                        "InvalidTimestamp", "NoTimestampFound"}
    ELSE result = e[1]

\* The result of decode is the one owed to a frame of timestamp t that
\* passed the monotonic check, when `holders` are the slots of its channel
OwedAfterMonotonic(result, holders, t) ==
    IF holders = {} THEN result = "InvalidSubscription"
    ELSE OwedResult(result, RangeError(StoredIn(holders), t))

\* C20: for a frame of a channel other than the emergency one that is long
\* enough to carry its timestamp and channel, decode returns
\* NonMonotonicTimestamp if the timestamp is not above the last decoded one;
\* else InvalidSubscription if no occupied slot holds the channel; else
\* InvalidTimestamp if the timestamp is outside [start_time, end_time];
\* else NoTimestampFound if no subtree contains it; and none of the four
\* otherwise.  The caches are untouched when one of the first three is
\* returned.
DecodeCheckOrder ==
    [][(DecodeStep /\ last'.channel # EMERGENCY_CHANNEL_ID /\ last'.timestamp # None)
          => IF non_monotonic(last_decoded_timestamp, last'.timestamp[1])
             THEN last'.result = "NonMonotonicTimestamp" /\ cache' = cache
             ELSE /\ OwedAfterMonotonic(last'.result, Holders(last'.channel),
                                        last'.timestamp[1])
                  /\ last'.result \in {"InvalidSubscription", "InvalidTimestamp"}
                       => cache' = cache
      ]_vars

\* A frame above the last decoded timestamp but past the end of its
\* channel's subscription was refused with InvalidTimestamp
DecodeCheckOrderWitness ==
    /\ last.op = "decode" /\ last.result = "InvalidTimestamp"
    /\ last.channel # EMERGENCY_CHANNEL_ID
    /\ last_decoded_timestamp # None
    /\ last.timestamp[1] > last_decoded_timestamp[1]
    /\ Holders(last.channel) # {}
    /\ last.timestamp[1] > end_time(StoredFor(last.channel))

-----------------------------------------------------------------------------
(* The wire protocol: message.rs.  A header is MAGIC, an opcode byte and a  *)
(* 16-bit LENGTH; the body follows in chunks of CHUNK_SIZE bytes.  What is  *)
(* put on and taken off the UART is kept as a sequence of events.           *)

MAGIC == 37
MAX_BODY_SIZE == 4608
CHUNK_SIZE == 256

\* impl From<Opcode> for u8
OpcodeByte ==
    [Decode |-> 68, Subscribe |-> 83, List |-> 76, Ack |-> 65, Debug |-> 71,
     Error |-> 69]

\* Opcodes that don't require an ack response
NACKS == {"Debug", "Ack"}

\* impl TryFrom<u8> for Opcode
Opcode_try_from(value) ==
    IF \E o \in DOMAIN OpcodeByte : OpcodeByte[o] = value
    THEN Some(CHOOSE o \in DOMAIN OpcodeByte : OpcodeByte[o] = value)
    ELSE None

\* The events of the UART
TxHeader(opcode, length) == [ev |-> "tx_header", opcode |-> opcode, length |-> length]
TxBody(from, to) == [ev |-> "tx_body", from |-> from, to |-> to]
RxHeader(n) == [ev |-> "rx_header", bytes |-> n]
RxBody(from, to) == [ev |-> "rx_body", from |-> from, to |-> to]

\* Message::ack and Message::send_ack
SendAck == TxHeader("Ack", 0)

CR == 13
LF == 10

\* Uart::read_bytes from place i of the buffer on: each byte read is written
\* back to the host; a CR is stored as LF and ends the read there.  tx: the
\* bytes written so far; stream: the bytes the host has sent and the decoder
\* has not read
RECURSIVE read_bytes_from(_, _, _, _)
read_bytes_from(buffer, i, stream, tx) ==
    IF i > Len(buffer)
    THEN [buffer |-> buffer, returned |-> buffer, tx |-> tx, rest |-> stream]
    ELSE IF stream[1] = CR
    THEN [buffer |-> [buffer EXCEPT ![i] = LF],
          returned |-> SubSeq([buffer EXCEPT ![i] = LF], 1, i),
          tx |-> Append(tx, stream[1]), rest |-> Tail(stream)]
    ELSE read_bytes_from([buffer EXCEPT ![i] = stream[1]], i + 1, Tail(stream),
                         Append(tx, stream[1]))

\* Uart::read_bytes into `buffer`, with at least Len(buffer) bytes sent
read_bytes(buffer, stream) == read_bytes_from(buffer, 1, stream, <<>>)

\* Uart::write_bytes: the bytes put on the link, a CR before every LF
RECURSIVE write_bytes(_)
write_bytes(buffer) ==
    IF buffer = <<>> THEN <<>>
    ELSE (IF buffer[1] = LF THEN <<CR, LF>> ELSE <<buffer[1]>>) \o write_bytes(Tail(buffer))

\* The length Message::read_header makes of the two length bytes the host
\* sent: read_bytes into [0, 0], then u16::from_le_bytes
read_length(stream) ==
    [length |-> read_bytes(<<0, 0>>, stream).buffer[1]
                  + 256 * read_bytes(<<0, 0>>, stream).buffer[2],
     tx |-> read_bytes(<<0, 0>>, stream).tx,
     rest |-> read_bytes(<<0, 0>>, stream).rest]

\* Message::read_header on the header bytes the host sends: the number of
\* bytes taken off the UART is 1 when the magic is wrong, 2 when the opcode
\* is unknown, else 4 (3 when the low byte of the length is a CR); the
\* length is what read_bytes makes of the two bytes sent
read_header(header) ==
    IF header.magic # MAGIC
    THEN [result |-> "IncorrectMagic", opcode |-> None, length |-> 0,
          events |-> <<RxHeader(1)>>]
    ELSE IF Opcode_try_from(header.opcode) = None
    THEN [result |-> "UnexpectedOpcode", opcode |-> None, length |-> 0,
          events |-> <<RxHeader(2)>>]
    ELSE [result |-> "Ok", opcode |-> Opcode_try_from(header.opcode),
          length |-> read_length(<<header.length % 256, header.length \div 256>>).length,
          events |-> <<RxHeader(4 - Len(read_length(<<header.length % 256,
                                                      header.length \div 256>>).rest))>>]

\* Message::read_ack that takes a header of any length
read_ack_any_length(header) == read_header(header)

\* Message::read_ack
read_ack(header) ==
    IF read_header(header).result # "Ok" THEN read_header(header)
    ELSE IF read_header(header).length # 0
    THEN [read_header(header) EXCEPT !.result = "AckError"]
    ELSE read_header(header)

\* The number of chunks of a body of `length` bytes, and the first and last
\* index of its k-th chunk
ChunkCount(length) == (length + CHUNK_SIZE - 1) \div CHUNK_SIZE
ChunkFrom(k) == (k - 1) * CHUNK_SIZE
ChunkTo(length, k) == IF k * CHUNK_SIZE <= length THEN k * CHUNK_SIZE - 1 ELSE length - 1

\* The loop of Message::read from chunk k on: each chunk is read, then
\* acknowledged
RECURSIVE read_chunks(_, _)
read_chunks(length, k) ==
    IF k > ChunkCount(length) THEN <<>>
    ELSE <<RxBody(ChunkFrom(k), ChunkTo(length, k)), SendAck>>
             \o read_chunks(length, k + 1)

\* Message::read once read_header returned h: the slice
\* body[..length] of the MAX_BODY_SIZE buffer panics when length is larger
read_after_header(h) ==
    IF h.result # "Ok" THEN h
    ELSE IF h.length > MAX_BODY_SIZE
    THEN [h EXCEPT !.result = "Panic", !.events = h.events \o <<SendAck>>]
    ELSE [h EXCEPT !.events = h.events \o <<SendAck>> \o read_chunks(h.length, 1)]

\* Message::read
Message_read(header) == read_after_header(read_header(header))

\* Message::from_data: a message is its opcode and the length of its body
Message_from_data(opcode, length) == [opcode |-> opcode, length |-> length]

\* What Message::write puts on the UART at step k: the header at step 0,
\* the k-th chunk of the body after it
WriteUnit(message, k) ==
    IF k = 0 THEN TxHeader(message.opcode, message.length)
    ELSE TxBody(ChunkFrom(k), ChunkTo(message.length, k))

\* One step of Message::write that does not wait for the ack
write_step_no_wait(message, unit, ack, rest) ==
    [result |-> rest.result, events |-> <<unit>> \o rest.events]

\* One step of Message::write: the unit is written, then, unless the opcode
\* is in NACKS, read_ack()? returns early on a failed read
write_step(message, unit, ack, rest) ==
    IF message.opcode \in NACKS
    THEN [result |-> rest.result, events |-> <<unit>> \o rest.events]
    ELSE IF ack.result # "Ok"
    THEN [result |-> ack.result, events |-> <<unit>> \o ack.events]
    ELSE [result |-> rest.result, events |-> <<unit>> \o ack.events \o rest.events]

\* Message::write from step k on; replies[k + 1] is the header the host
\* sends in answer to step k
RECURSIVE write_from(_, _, _)
write_from(message, k, replies) ==
    IF k > ChunkCount(message.length) THEN [result |-> "Ok", events |-> <<>>]
    ELSE write_step(message, WriteUnit(message, k), read_ack(replies[k + 1]),
                    write_from(message, k + 1, replies))

\* Message::write
Message_write(message, replies) == write_from(message, 0, replies)

\* Message::send_data
send_data(opcode, length, replies) ==
    IF length > MAX_BODY_SIZE
    THEN [result |-> "BodyLengthError", events |-> <<>>]
    ELSE Message_write(Message_from_data(opcode, length), replies)

\* b"Error occured (error too long to send)".len()
TOO_LONG_TEXT_LEN == 38

\* The outcome of write_error: which text the body holds, and the outcome
\* of sending it
ErrorSent(text, sent) == [text |-> text, result |-> sent.result, events |-> sent.events]

\* write_error that cuts the text at the size of the buffer
write_error_truncating(text_len, replies) ==
    ErrorSent("error",
              send_data("Error",
                        IF text_len <= MAX_BODY_SIZE THEN text_len ELSE MAX_BODY_SIZE,
                        replies))

\* write_error for an error whose text is text_len bytes long: the text
\* when it fits the buffer of MAX_BODY_SIZE bytes, else the fixed text
write_error(text_len, replies) ==
    IF text_len <= MAX_BODY_SIZE
    THEN ErrorSent("error", send_data("Error", text_len, replies))
    ELSE ErrorSent("too long", send_data("Error", TOO_LONG_TEXT_LEN, replies))

-----------------------------------------------------------------------------
(* The wire protocol on its own: the host sends a header or answers the     *)
(* decoder's waits for an ack, and one function of message.rs or utils.rs   *)
(* runs on it.                                                              *)

\* The lengths of the bodies, around the sizes of a chunk and of the buffer
WireLengths ==
    {0, 1, CHUNK_SIZE - 1, CHUNK_SIZE, CHUNK_SIZE + 1, 2 * CHUNK_SIZE,
     MAX_BODY_SIZE - 1, MAX_BODY_SIZE, MAX_BODY_SIZE + 1}

\* The headers the host sends: a right or wrong magic, the six opcodes or
\* another byte, and a length
WireMagics == {MAGIC, 0}
WireOpcodeBytes == {OpcodeByte[o] : o \in DOMAIN OpcodeByte} \cup {0}
Header(magic, opcode, length) == [magic |-> magic, opcode |-> opcode, length |-> length]
WireHeaders ==
    {Header(magic, opcode, length) :
        magic \in WireMagics, opcode \in WireOpcodeBytes, length \in WireLengths}

\* The headers the host answers a wait for an ack with
AckHeader == Header(MAGIC, OpcodeByte["Ack"], 0)
WireAnswers ==
    {AckHeader, Header(0, OpcodeByte["Ack"], 0), Header(MAGIC, 0, 0),
     Header(MAGIC, OpcodeByte["Ack"], 1), Header(MAGIC, OpcodeByte["Decode"], 0)}

\* The waits a write of the largest body makes, and the answers of the host
\* to them: acks, but for at most one answer
MaxWaits == ChunkCount(MAX_BODY_SIZE) + 1
WireOddAt == {0, 1, 2, 3, MaxWaits}
Answers(odd_at, answer) == [k \in 1..MaxWaits |-> IF k = odd_at THEN answer ELSE AckHeader]
WireReplies == {Answers(odd_at, answer) : odd_at \in WireOddAt, answer \in WireAnswers}

\* The lengths of the texts of errors
WireTextLengths == WireLengths \cup {TOO_LONG_TEXT_LEN}

\* What the wire holds before a function runs, and after it
WireInput(kind, header, opcode, length, replies) ==
    [op |-> "idle", kind |-> kind, header |-> header, opcode |-> opcode,
     length |-> length, replies |-> replies, result |-> "None", events |-> <<>>,
     text |-> "None"]
WireDone(op, result, events, text) ==
    [last EXCEPT !.op = op, !.result = result, !.events = events, !.text = text]

InitWire ==
    /\ flash = [i \in Slots |-> ErasedPage]
    /\ power = "on"
    /\ cache = NoCaches
    /\ last_decoded_timestamp = None
    /\ committed = [i \in Slots |-> None]
    /\ \/ \E kind \in {"read", "read_ack"}, header \in WireHeaders :
              last = WireInput(kind, header, "Ack", 0, Answers(0, AckHeader))
       \/ \E kind \in {"write", "send_data"}, opcode \in DOMAIN OpcodeByte,
              length \in WireLengths, replies \in WireReplies :
              last = WireInput(kind, AckHeader, opcode, length, replies)
       \/ \E length \in WireTextLengths, replies \in WireReplies :
              last = WireInput("write_error", AckHeader, "Error", length, replies)

\* Message::read runs on the header the host sent
Read ==
    /\ last.op = "idle" /\ last.kind = "read"
    /\ \E r \in {Message_read(last.header)} :
          last' = WireDone("read", r.result, r.events, "None")
    /\ UNCHANGED <<flash, power, cache, last_decoded_timestamp, committed>>

\* Message::read_ack runs on the header the host sent
ReadAck ==
    /\ last.op = "idle" /\ last.kind = "read_ack"
    /\ \E r \in {read_ack(last.header)} :
          last' = WireDone("read_ack", r.result, r.events, "None")
    /\ UNCHANGED <<flash, power, cache, last_decoded_timestamp, committed>>

\* Message::write runs on a message, the host answering its waits
Write ==
    /\ last.op = "idle" /\ last.kind = "write"
    /\ last.length <= MAX_BODY_SIZE
    /\ \E r \in {Message_write(Message_from_data(last.opcode, last.length),
                                last.replies)} :
          last' = WireDone("write", r.result, r.events, "None")
    /\ UNCHANGED <<flash, power, cache, last_decoded_timestamp, committed>>

\* Message::send_data runs on an opcode and a body
SendData ==
    /\ last.op = "idle" /\ last.kind = "send_data"
    /\ \E r \in {send_data(last.opcode, last.length, last.replies)} :
          last' = WireDone("send_data", r.result, r.events, "None")
    /\ UNCHANGED <<flash, power, cache, last_decoded_timestamp, committed>>

\* write_error runs on an error
WriteError ==
    /\ last.op = "idle" /\ last.kind = "write_error"
    /\ \E r \in {write_error(last.length, last.replies)} :
          last' = WireDone("write_error", r.result, r.events, r.text)
    /\ UNCHANGED <<flash, power, cache, last_decoded_timestamp, committed>>

NextWire == Read \/ ReadAck \/ Write \/ SendData \/ WriteError

SpecWire == InitWire /\ [][NextWire]_vars

\* An answer of the host that a wait for an ack takes: the magic, one of
\* the six opcodes and no body
TakenAsAck(header) ==
    /\ header.magic = MAGIC
    /\ header.opcode \in {OpcodeByte[o] : o \in DOMAIN OpcodeByte}
    /\ header.length = 0

\* The number of waits that end well before the first that does not, among
\* the first n
RECURSIVE GoodWaits(_, _, _)
GoodWaits(replies, k, n) ==
    IF k > n \/ ~TakenAsAck(replies[k]) THEN k - 1 ELSE GoodWaits(replies, k + 1, n)

\* The units a write puts on the wire: the header, then the chunks in order,
\* each of at most CHUNK_SIZE bytes, from the first byte of the body on
UnitsInOrder(units, opcode, length) ==
    /\ units # <<>>
    /\ units[1] = TxHeader(opcode, length)
    /\ \A k \in 2..Len(units) :
          /\ units[k].ev = "tx_body"
          /\ units[k].from = (k - 2) * 256
          /\ units[k].to - units[k].from < 256
          /\ units[k].to = IF (k - 1) * 256 <= length THEN (k - 1) * 256 - 1 ELSE length - 1

\* The events at the odd, and at the even, places of a sequence
OddPlaces(events) == [k \in 1..((Len(events) + 1) \div 2) |-> events[2 * k - 1]]
EvenPlaces(events) == [k \in 1..(Len(events) \div 2) |-> events[2 * k]]

Min(a, b) == IF a <= b THEN a ELSE b

\* ceil(L/256)
CeilChunks(length) == IF length % 256 = 0 THEN length \div 256 ELSE length \div 256 + 1

\* C23: Message::write of a message with an opcode other than Debug and Ack
\* writes a unit (the header, then each chunk in order, of at most 256 bytes)
\* and reads an ack by turns, starting with the header; when every ack read
\* succeeds it reads 1 + ceil(L/256) of them and the whole body is sent; the
\* first failed read is the last event and its error the result.  With Debug
\* and Ack the header and the chunks are written and nothing is read.
WriteAckOrder ==
    last.op = "write" =>
        IF last.opcode \in NACKS
        THEN /\ last.result = "Ok"
             /\ Len(last.events) = 1 + CeilChunks(last.length)
             /\ UnitsInOrder(last.events, last.opcode, last.length)
        ELSE /\ UnitsInOrder(OddPlaces(last.events), last.opcode, last.length)
             /\ \A k \in 1..Len(last.events) :
                   (last.events[k].ev = "rx_header") <=> (k % 2 = 0)
             /\ Len(last.events)
                   = 2 * Min(GoodWaits(last.replies, 1, 1 + CeilChunks(last.length)) + 1,
                             1 + CeilChunks(last.length))
             /\ (last.result = "Ok")
                   <=> GoodWaits(last.replies, 1, 1 + CeilChunks(last.length))
                          = 1 + CeilChunks(last.length)

\* A Decode message with a body of two chunks was written whole: three
\* units, each followed by the read of an ack
WriteAckOrderWitness ==
    /\ last.op = "write"
    /\ last.opcode = "Decode"
    /\ last.length = CHUNK_SIZE + 1
    /\ last.result = "Ok"
    /\ Len(last.events) = 6

\* C24: Message::read sends an Ack after the header and after each chunk of
\* the body, and none at all when the opcode it received is Debug or Ack
ReadAcksButNacks ==
    (last.op = "read" /\ last.result = "Ok") =>
        Len(SelectSeq(last.events, LAMBDA e : e = SendAck))
            = IF Opcode_try_from(last.header.opcode)[1] \in NACKS THEN 0
              ELSE 1 + CeilChunks(last.header.length)

\* C25: a read fails with IncorrectMagic when the first byte is not 0x25,
\* with UnexpectedOpcode when the second is not one of D, S, L, A, G, E, and
\* read_ack with AckError when the length is not zero; a failed read sends
\* nothing and takes no byte of a body
ReadFailures ==
    last.op \in {"read", "read_ack"} =>
        /\ last.header.magic # 37 => last.result = "IncorrectMagic"
        /\ (last.header.magic = 37 /\ last.header.opcode \notin {68, 83, 76, 65, 71, 69})
              => last.result = "UnexpectedOpcode"
        /\ (last.op = "read_ack" /\ last.header.magic = 37
               /\ last.header.opcode \in {68, 83, 76, 65, 71, 69}
               /\ last.header.length # 0)
              => last.result = "AckError"
        /\ last.result \in {"IncorrectMagic", "UnexpectedOpcode", "AckError"}
              => \A k \in 1..Len(last.events) : last.events[k].ev = "rx_header"

\* read_ack ended with AckError on a header with a length
ReadFailuresWitness ==
    /\ last.op = "read_ack"
    /\ last.result = "AckError"
    /\ last.header.length = 1

\* C26: a length above 4608 ends Message::read and Message::send_data with
\* the error of a body too long; no byte past index 4607 is read or written
\* and nothing panics
LengthRejected ==
    last.op \in {"read", "send_data"} =>
        /\ last.result # "Panic"
        /\ (last.op = "read" /\ last.header.magic = 37
               /\ last.header.opcode \in {68, 83, 76, 65, 71, 69}
               /\ last.header.length > 4608)
              => last.result = "BodyLengthError"
        /\ (last.op = "send_data" /\ last.length > 4608)
              => last.result = "BodyLengthError"
        /\ \A k \in 1..Len(last.events) :
              last.events[k].ev \in {"rx_body", "tx_body"} => last.events[k].to <= 4607

\* The headers written among the events, and the body events
HeadersWritten(events) == SelectSeq(events, LAMBDA e : e.ev = "tx_header")
BodiesWritten(events) == SelectSeq(events, LAMBDA e : e.ev = "tx_body")

\* C22 as stated: the Error message carries the first min(len, 4608) bytes
\* of the error text, and its body goes out as one unit, with no wait for
\* an ack between parts of it
ErrorTruncatedOneUnit ==
    (last.op = "write_error" /\ last.result = "Ok") =>
        /\ last.text = "error"
        /\ HeadersWritten(last.events)
              = <<TxHeader("Error", Min(last.length, 4608))>>
        /\ BodiesWritten(last.events)
              = IF last.length = 0 THEN <<>>
                ELSE <<TxBody(0, Min(last.length, 4608) - 1)>>

\* C22, amended: the Error message carries the whole error text when it is
\* at most 4608 bytes long and the fixed 38-byte text in place of a longer
\* one; it is one message, written like any acknowledged message: the
\* header, then chunks of at most 256 bytes, each write followed by the read
\* of an ack
ErrorWholeOrFixed ==
    last.op = "write_error" =>
        /\ last.text = IF last.length <= 4608 THEN "error" ELSE "too long"
        /\ HeadersWritten(last.events)
              = <<TxHeader("Error", IF last.length <= 4608 THEN last.length ELSE 38)>>
        /\ UnitsInOrder(OddPlaces(last.events), "Error",
                        IF last.length <= 4608 THEN last.length ELSE 38)
        /\ \A k \in 1..Len(last.events) :
              (last.events[k].ev = "rx_header") <=> (k % 2 = 0)
        /\ last.result = "Ok" =>
              Len(last.events)
                  = 2 * (1 + CeilChunks(IF last.length <= 4608 THEN last.length ELSE 38))

\* An error text one byte longer than the buffer was reported, and the host
\* acknowledged the message
ErrorWholeOrFixedWitness ==
    /\ last.op = "write_error"
    /\ last.length = MAX_BODY_SIZE + 1
    /\ last.result = "Ok"
    /\ last.text = "too long"

-----------------------------------------------------------------------------
(* The main loop: a request is read, its handler runs and writes its        *)
(* response, and an error the handler returns is reported with write_error. *)

\* What a handler puts on the wire when it writes no response
NothingWritten(result) == [result |-> result, events |-> <<>>]

\* decode writes its response whatever came before
decode_emit_always(r, replies) ==
    Message_write(Message_from_data("Decode",
                                    IF r.response = None THEN 0 ELSE Len(r.response[1])),
                  replies)

\* The end of decode: the Decode message is built and written once all that
\* precedes succeeded, r being decode's outcome up to there
decode_emit(r, replies) ==
    IF r.result # "Ok" THEN NothingWritten(r.result)
    ELSE Message_write(Message_from_data("Decode", Len(r.response[1])), replies)

\* println! in get_keys_for_channel: a Debug message, written when the
\* timestamp is outside the subscription
decode_debug(r, text_len) ==
    IF r.result = "InvalidTimestamp"
    THEN Message_write(Message_from_data("Debug", text_len), Answers(0, AckHeader)).events
    ELSE <<>>

\* The end of subscribe: the empty Subscribe message is sent once
\* update_subscription succeeded
subscribe_emit(r, replies) ==
    IF r.result # "Ok" THEN NothingWritten(r.result)
    ELSE send_data("Subscribe", 0, replies)

\* The List response: a count and one record per listed channel
LIST_COUNT_SIZE == 4
LIST_RECORD_SIZE == 20
list_emit(listing, replies) ==
    send_data("List", LIST_COUNT_SIZE + LIST_RECORD_SIZE * Len(listing), replies)

\* The requests of the host: frames of the emergency channel, a frame before
\* the start of channel 1's subscription, a renewal of channel 1, another
\* decoder's subscription, and a list request
LoopFrames ==
    {EncodedFrame(EMERGENCY_CHANNEL_ID, 1, Hello),
     EncodedFrame(EMERGENCY_CHANNEL_ID, 2, FullFrame),
     EncodedFrame(1, 0, Hello)}
LoopPayloads ==
    {SubPayload(1, 2, MaxTs - 2),
     Seal(subscription_public_key.owner, <<-1, DECODER_ID + 1>>, 0,
          [decoder_id |-> DECODER_ID + 1], Subscription(1, 0, MaxTs))}
Request(opcode, body) == [opcode |-> opcode, body |-> body]
LoopRequests ==
    {Request("Decode", frame) : frame \in LoopFrames}
    \cup {Request("Subscribe", payload) : payload \in LoopPayloads}
    \cup {Request("List", None)}

\* The length of a request on the wire
LoopRequestLength(opcode) == IF opcode = "List" THEN 0 ELSE CHUNK_SIZE + 1

\* The answers of the host to the waits of a response: acks, but for at most
\* one of the first two waits
LoopReplies ==
    {Answers(odd_at, Header(MAGIC, OpcodeByte["Ack"], 1)) : odd_at \in {0, 1, 2}}

\* The lengths of the texts of the errors, and of the debug output
LoopTextLengths == {TOO_LONG_TEXT_LEN, CHUNK_SIZE + 1}

\* The state of the loop: where it is, the request it is serving, the result
\* of the handler, and the events on the wire since the request was read
Loop(op, pc, request, result, events) ==
    [op |-> op, pc |-> pc, request |-> request, result |-> result, events |-> events]

InitLoop ==
    /\ flash = Image(Prefilled)
    /\ power = "on"
    /\ cache = BootCaches(flash)
    /\ last_decoded_timestamp = None
    /\ last = Loop("loop_start", "read", Request("List", None), "None", <<>>)
    /\ committed = ImageCommitted(Prefilled)

\* The main loop reads a request
LoopRead(request) ==
    /\ power = "on"
    /\ last.pc = "read"
    /\ last' = Loop("loop_read", "dispatch", request, "None",
                    Message_read(Header(MAGIC, OpcodeByte[request.opcode],
                                        LoopRequestLength(request.opcode))).events)
    /\ UNCHANGED <<flash, power, cache, last_decoded_timestamp, committed>>

\* Where the loop goes after a handler returned
AfterHandler(result) == IF result = "Ok" THEN "read" ELSE "error"

\* The main loop dispatches a Decode request to decode
LoopDecode(replies, text_len) ==
    /\ power = "on"
    /\ last.pc = "dispatch" /\ last.request.opcode = "Decode"
    /\ \E r \in {decode(flash, cache, last_decoded_timestamp, last.request.body, TRUE)} :
       \E w \in {decode_emit(r, replies)} :
       \E done \in {decode(flash, cache, last_decoded_timestamp, last.request.body,
                           w.result = "Ok")} :
          /\ cache' = done.cache
          /\ last_decoded_timestamp' = done.last_decoded_timestamp
          /\ power' = IF done.result = "Panic" THEN "panic" ELSE "on"
          /\ last' = Loop("loop_handled", AfterHandler(done.result), last.request,
                          done.result,
                          last.events \o decode_debug(r, text_len) \o w.events)
    /\ UNCHANGED <<flash, committed>>

\* The main loop dispatches a Subscribe request to subscribe
LoopSubscribe(replies) ==
    /\ power = "on"
    /\ last.pc = "dispatch" /\ last.request.opcode = "Subscribe"
    /\ \E r \in {subscribe(flash, cache, last.request.body, TRUE)} :
       \E w \in {subscribe_emit(r, replies)} :
       \E done \in {subscribe(flash, cache, last.request.body, w.result = "Ok")} :
          /\ flash' = done.flash
          /\ cache' = done.cache
          /\ power' = IF done.result = "Panic" THEN "panic" ELSE "on"
          /\ last' = Loop("loop_handled", AfterHandler(done.result), last.request,
                          done.result, last.events \o w.events)
    /\ \E parsed \in {subscribe_parse(last.request.body)} :
          IF parsed.result # "Ok" THEN UNCHANGED committed
          ELSE \E target \in {update_target(flash, parsed.entry[1])} :
                  committed' = IF target = None THEN committed
                               ELSE [committed EXCEPT ![target[1]] = parsed.entry]
    /\ UNCHANGED last_decoded_timestamp

\* The main loop answers a List request
LoopList(replies) ==
    /\ power = "on"
    /\ last.pc = "dispatch" /\ last.request.opcode = "List"
    /\ \E w \in {list_emit(list_channels(flash), replies)} :
          last' = Loop("loop_handled",
                       AfterHandler(IF w.result = "Ok" THEN "Ok" ELSE "MessageError"),
                       last.request,
                       IF w.result = "Ok" THEN "Ok" ELSE "MessageError",
                       last.events \o w.events)
    /\ UNCHANGED <<flash, power, cache, last_decoded_timestamp, committed>>

\* The main loop reports the error the handler returned, and goes on
LoopError(text_len, replies) ==
    /\ power = "on"
    /\ last.pc = "error"
    /\ \E w \in {write_error(text_len, replies)} :
          last' = Loop("loop_error", "read", last.request, last.result,
                       last.events \o w.events)
    /\ UNCHANGED <<flash, power, cache, last_decoded_timestamp, committed>>

NextLoop ==
    \/ \E request \in LoopRequests : LoopRead(request)
    \/ \E replies \in LoopReplies, text_len \in LoopTextLengths :
          LoopDecode(replies, text_len)
    \/ \E replies \in LoopReplies : LoopSubscribe(replies)
    \/ \E replies \in LoopReplies : LoopList(replies)
    \/ \E text_len \in LoopTextLengths, replies \in LoopReplies :
          LoopError(text_len, replies)

SpecLoop == InitLoop /\ [][NextLoop]_vars

\* The headers of the terminal responses among the events: those of Decode,
\* Subscribe, List and Error messages the decoder wrote
TerminalHeaders(events) ==
    SelectSeq(events, LAMBDA e : e.ev = "tx_header"
                                  /\ e.opcode \in {"Decode", "Subscribe", "List", "Error"})
TerminalOpcodes(events) ==
    [k \in 1..Len(TerminalHeaders(events)) |-> TerminalHeaders(events)[k].opcode]

\* A step that reads a request after another was served
NextRequestRead == last.op # "loop_start" /\ last'.op = "loop_read"

\* C21 as stated: between the read of a request and the read of the next,
\* exactly one terminal response is written: the opcode's own when the
\* handler succeeded, an Error when it returned an error
OneTerminalResponse ==
    [][NextRequestRead =>
          TerminalOpcodes(last.events)
              = IF last.result = "Ok" THEN <<last.request.opcode>> ELSE <<"Error">>
      ]_vars

\* C21, amended: between the read of a request and the read of the next,
\* the terminal responses written are the opcode's own when the handler
\* succeeded, and one Error when it returned an error before it wrote its
\* response; when the handler's write of its response failed at the read of
\* an ack, the response (its header at least) is followed by one Error.  The
\* loop reads the next request after an Error as after a response.
TerminalResponses ==
    [][NextRequestRead =>
          /\ TerminalOpcodes(last.events)
                = IF last.result = "Ok" THEN <<last.request.opcode>>
                  ELSE IF last.result = "MessageError"
                  THEN <<last.request.opcode, "Error">>
                  ELSE <<"Error">>
          /\ last.op = IF last.result = "Ok" THEN "loop_handled" ELSE "loop_error"
      ]_vars

\* The host acknowledged the header of a Decode response and not its body:
\* decode returned the error of the write, and the Error message followed
\* the response
TerminalResponsesWitness ==
    /\ last.op = "loop_error"
    /\ last.request.opcode = "Decode"
    /\ last.result = "MessageError"
    /\ TerminalOpcodes(last.events) = <<"Decode", "Error">>
    /\ \E k \in 1..Len(last.events) : last.events[k].ev = "tx_body"

-----------------------------------------------------------------------------
(* The instruction cache around the flash writes of update_subscription     *)

\* The instruction cache after the first k operations of a sequence, from
\* the state DecoderContext::new leaves it in: whether it is enabled, and
\* whether it may hold lines read before the flash was changed
RECURSIVE IccAfter(_, _)
IccAfter(hal, k) ==
    IF k = 0 THEN [enabled |-> TRUE, stale |-> FALSE]
    ELSE IF hal[k] = "icc_disable" THEN [IccAfter(hal, k - 1) EXCEPT !.enabled = FALSE]
    ELSE IF hal[k] = "icc_enable" THEN [IccAfter(hal, k - 1) EXCEPT !.enabled = TRUE]
    ELSE IF hal[k] = "icc_invalidate" THEN [IccAfter(hal, k - 1) EXCEPT !.stale = FALSE]
    ELSE [IccAfter(hal, k - 1) EXCEPT !.stale = TRUE]

FlashOps == {"erase_page", "write16", "write_status"}

\* C27: every erase and write of the flash by update_subscription is done
\* with the instruction cache disabled; when update_subscription returns,
\* with Ok or TooManySubscriptions, the cache is enabled and was invalidated
\* after the last flash operation and before it was enabled
IcacheOffAroundFlash ==
    (last.op = "subscribe" /\ last.entry # None) =>
        /\ \A k \in 1..Len(last.hal) :
              last.hal[k] \in FlashOps => ~IccAfter(last.hal, k - 1).enabled
        /\ \A k \in 1..Len(last.hal) :
              IccAfter(last.hal, k).enabled => ~IccAfter(last.hal, k).stale
        /\ last.result # "Panic" =>
              /\ IccAfter(last.hal, Len(last.hal)).enabled
              /\ \E k \in 1..Len(last.hal) :
                    /\ last.hal[k] = "icc_invalidate"
                    /\ \A j \in (k + 1)..Len(last.hal) : last.hal[j] \notin FlashOps
        /\ (last.result = "TooManySubscriptions")
              <=> (\A k \in 1..Len(last.hal) : last.hal[k] \notin FlashOps)

\* A subscription was written to a slot: the page was erased and written
\* between the disable and the enable
IcacheOffAroundFlashWitness ==
    /\ last.op = "subscribe" /\ last.result = "Ok"
    /\ Len(SelectSeq(last.hal, LAMBDA op : op \in FlashOps)) = SetSteps
    /\ IccAfter(last.hal, Len(last.hal)).enabled

-----------------------------------------------------------------------------
(* derive_decoder_key_for_timestamp on its own: a subscription for every    *)
(* interval, keys derived for every timestamp, inside the interval or not,  *)
(* the cache carried from one call to the next                              *)

DeriveChannel == 1

\* The subscription, the cache, and the last call and what it returned
Derived(op, subscription, cache_entries, timestamp, result, key) ==
    [op |-> op, subscription |-> subscription, cache_entries |-> cache_entries,
     timestamp |-> timestamp, result |-> result, key |-> key]

InitDerive ==
    /\ flash = [i \in Slots |-> ErasedPage]
    /\ power = "on"
    /\ cache = NoCaches
    /\ last_decoded_timestamp = None
    /\ committed = [i \in Slots |-> None]
    /\ \E s \in 0..MaxTs, e \in 0..MaxTs :
          /\ s <= e
          /\ last = Derived("subscribed", Subscription(DeriveChannel, s, e), <<>>, 0,
                            "None", <<>>)

\* derive_decoder_key_for_timestamp runs on the subscription and the cache
Derive(timestamp) ==
    /\ last.result # "Panic"
    /\ \E r \in {derive_decoder_key_for_timestamp(last.subscription, last.cache_entries,
                                                  timestamp)} :
          last' = Derived("derive", last.subscription, r.cache_entries, timestamp,
                          r.result, r.key)
    /\ UNCHANGED <<flash, power, cache, last_decoded_timestamp, committed>>

NextDerive == \E timestamp \in 0..MaxTs : Derive(timestamp)

SpecDerive == InitDerive /\ [][NextDerive]_vars

\* child is the half of parent that contains t, with the half of the
\* expansion of parent's key that goes with it
HalfOf(child, parent, t) ==
    /\ parent.lowest_timestamp < parent.highest_timestamp
    /\ contains(child, t)
    /\ \/ /\ child.lowest_timestamp = parent.lowest_timestamp
          /\ child.highest_timestamp
                = parent.lowest_timestamp
                  + (parent.highest_timestamp - parent.lowest_timestamp) \div 2
          /\ child.key = compute_chacha_block(parent.key)[1]
       \/ /\ child.lowest_timestamp
                = parent.lowest_timestamp
                  + (parent.highest_timestamp - parent.lowest_timestamp) \div 2 + 1
          /\ child.highest_timestamp = parent.highest_timestamp
          /\ child.key = compute_chacha_block(parent.key)[2]

\* C28: after derive returned Ok for t, each cache entry is one half of the
\* entry before it, every entry contains t, and the last entry of a cache
\* that is not empty is the leaf [t, t] with the key derive returned
CacheIsDescent ==
    (last.op = "derive" /\ last.result = "Ok") =>
        /\ \A k \in 1..Len(last.cache_entries) :
              contains(last.cache_entries[k], last.timestamp)
        /\ \A k \in 2..Len(last.cache_entries) :
              HalfOf(last.cache_entries[k], last.cache_entries[k - 1], last.timestamp)
        /\ last.cache_entries # <<>> =>
              last.cache_entries[Len(last.cache_entries)]
                  = [lowest_timestamp |-> last.timestamp,
                     highest_timestamp |-> last.timestamp, key |-> last.key]

\* The cache holds the descent from the full range to the last timestamp
CacheIsDescentWitness ==
    /\ last.op = "derive" /\ last.result = "Ok"
    /\ last.timestamp = MaxTs
    /\ Len(last.cache_entries) = TsBits
    /\ last.cache_entries[1].lowest_timestamp > 0

\* The nodes of the subscription that contain t: the i-th starts where the
\* one before it ends and is 2^(TsBits - depth) wide
SubtreesWith(sub, t) ==
    {i \in 1..sub.subtree_count :
        /\ CoverLowest(sub.start_time, sub.depths, i) <= t
        /\ t <= CoverLowest(sub.start_time, sub.depths, i)
                  + 2^(TsBits - sub.depths[i]) - 1}
SubtreeAt(sub, i) ==
    [lowest_timestamp |-> CoverLowest(sub.start_time, sub.depths, i),
     highest_timestamp |-> CoverLowest(sub.start_time, sub.depths, i)
                             + 2^(TsBits - sub.depths[i]) - 1,
     key |-> sub.node_keys[i]]

\* The entries at and after place k of the cache, and the key returned, are
\* what the descent from `start` to the leaf of t leaves
DescendsFrom(start, k) ==
    /\ last'.result = "Ok"
    /\ IF start.lowest_timestamp = start.highest_timestamp
       THEN Len(last'.cache_entries) = k - 1 /\ last'.key = start.key
       ELSE /\ Len(last'.cache_entries) >= k
            /\ HalfOf(last'.cache_entries[k], start, last'.timestamp)

\* The deepest entry of the cache that contains t
DeepestWith(cache_entries, t) ==
    CHOOSE i \in 1..Len(cache_entries) :
        /\ contains(cache_entries[i], t)
        /\ \A j \in 1..Len(cache_entries) : contains(cache_entries[j], t) => j <= i

\* C29: when the cache is not empty and its entry 0 contains t, derive
\* starts from the deepest entry that contains t and keeps the cache up to
\* that entry; otherwise the cache is cleared and derive starts from the
\* subtree of the subscription that contains t, and when there is none it
\* returns NoTimestampFound and the cache is empty
DeriveStart ==
    [][last'.op = "derive" =>
          IF last.cache_entries # <<>> /\ contains(last.cache_entries[1], last'.timestamp)
          THEN /\ Len(last'.cache_entries)
                     >= DeepestWith(last.cache_entries, last'.timestamp)
               /\ SubSeq(last'.cache_entries, 1,
                         DeepestWith(last.cache_entries, last'.timestamp))
                     = SubSeq(last.cache_entries, 1,
                              DeepestWith(last.cache_entries, last'.timestamp))
               /\ DescendsFrom(
                      last.cache_entries[DeepestWith(last.cache_entries, last'.timestamp)],
                      DeepestWith(last.cache_entries, last'.timestamp) + 1)
          ELSE IF SubtreesWith(last.subscription, last'.timestamp) # {}
          THEN \E i \in SubtreesWith(last.subscription, last'.timestamp) :
                  DescendsFrom(SubtreeAt(last.subscription, i), 1)
          ELSE /\ last'.result = "NoTimestampFound"
               /\ last'.cache_entries = <<>>
      ]_vars

\* derive was called for a timestamp that no subtree of the subscription
\* contains
DeriveStartWitness ==
    /\ last.op = "derive"
    /\ last.result = "NoTimestampFound"
    /\ last.cache_entries = <<>>
    /\ last.timestamp > 0

\* The k of a node that is 2^k timestamps wide
WidthLog(node) ==
    CHOOSE k \in 0..TsBits : 2^k = node.highest_timestamp - node.lowest_timestamp + 1

\* The loop ran from `start` with `kept` entries in the cache: it pushed one
\* entry per halving of start's width and ended at the leaf of the timestamp
LoopRan(start, kept) ==
    /\ Len(last'.cache_entries) = kept + WidthLog(start)
    /\ IF WidthLog(start) = 0
       THEN /\ start.lowest_timestamp = last'.timestamp
            /\ start.highest_timestamp = last'.timestamp
       ELSE /\ last'.cache_entries[Len(last'.cache_entries)].lowest_timestamp
                  = last'.timestamp
            /\ last'.cache_entries[Len(last'.cache_entries)].highest_timestamp
                  = last'.timestamp

\* C32: derive ends without a panic; from a start node 2^k wide, whether it
\* is a subtree of the subscription (the cache cleared) or the deepest cache
\* entry that contains t (the cache kept up to it), the loop pushes exactly
\* k entries and ends at [t, t]; the cache never holds more entries than its
\* capacity
DeriveLoopBounded ==
    [][last'.op = "derive" =>
          /\ last'.result \in {"Ok", "NoTimestampFound"}
          /\ Len(last'.cache_entries) <= CACHE_CAPACITY
          /\ last'.result = "Ok" =>
                IF last.cache_entries # <<>>
                   /\ contains(last.cache_entries[1], last'.timestamp)
                THEN LoopRan(last.cache_entries[DeepestWith(last.cache_entries,
                                                            last'.timestamp)],
                             DeepestWith(last.cache_entries, last'.timestamp))
                ELSE \E i \in SubtreesWith(last.subscription, last'.timestamp) :
                        LoopRan(SubtreeAt(last.subscription, i), 0)
      ]_vars

\* derive filled the cache to its capacity on the way to timestamp 0 of the
\* subscription of the whole range
DeriveLoopBoundedWitness ==
    /\ last.op = "derive" /\ last.result = "Ok"
    /\ last.timestamp = 0
    /\ last.subscription.subtree_count = 1
    /\ last.subscription.depths[1] = 0
    /\ Len(last.cache_entries) = CACHE_CAPACITY

-----------------------------------------------------------------------------
(* The halving loop on its own: every node [lo, hi] of the timestamp space  *)
(* with lo < hi, aligned or not, and every timestamp in it                  *)

HalveRoot == <<DeriveChannel>>

\* A node, the timestamp looked for, and what the last pass made of them
Halving(op, parent, subtree, timestamp, overflow) ==
    [op |-> op, parent |-> parent, subtree |-> subtree, timestamp |-> timestamp,
     overflow |-> overflow]

InitHalve ==
    /\ flash = [i \in Slots |-> ErasedPage]
    /\ power = "on"
    /\ cache = NoCaches
    /\ last_decoded_timestamp = None
    /\ committed = [i \in Slots |-> None]
    /\ \E lo \in 0..MaxTs, hi \in 0..MaxTs, timestamp \in 0..MaxTs :
          /\ lo < hi /\ lo <= timestamp /\ timestamp <= hi
          /\ \E subtree \in {[lowest_timestamp |-> lo, highest_timestamp |-> hi,
                               key |-> HalveRoot]} :
                last = Halving("node", subtree, subtree, timestamp, FALSE)

\* One pass of the loop of derive_decoder_key_for_timestamp
HalveOnce ==
    /\ last.subtree.lowest_timestamp # last.subtree.highest_timestamp
    /\ last' = Halving("halved", last.subtree, HalveStep(last.subtree, last.timestamp),
                       last.timestamp, Midsections(last.subtree).overflow)
    /\ UNCHANGED <<flash, power, cache, last_decoded_timestamp, committed>>

NextHalve == HalveOnce

SpecHalve == InitHalve /\ [][NextHalve]_vars

\* lo + ((hi - lo) >> 1) for a node
MidOf(node) ==
    node.lowest_timestamp + (node.highest_timestamp - node.lowest_timestamp) \div 2

\* C30: for a node [lo, hi] with lo < hi, the full range included, a pass of
\* the halving loop computes mid = lo + ((hi - lo) >> 1) with no value
\* outside the width of a timestamp; [lo, mid] and [mid + 1, hi] are not
\* empty and make up the node, t is in one of them, and the pass keeps that
\* one with its half of the expansion of the key: the first for [lo, mid],
\* the last for [mid + 1, hi]
HalvingStep ==
    last.op = "halved" =>
        /\ ~last.overflow
        /\ 0 <= last.parent.highest_timestamp - last.parent.lowest_timestamp
        /\ MidOf(last.parent) + 1 <= MaxTs
        /\ last.parent.lowest_timestamp <= MidOf(last.parent)
        /\ MidOf(last.parent) + 1 <= last.parent.highest_timestamp
        /\ last.subtree
              = IF last.timestamp <= MidOf(last.parent)
                THEN [lowest_timestamp |-> last.parent.lowest_timestamp,
                      highest_timestamp |-> MidOf(last.parent),
                      key |-> compute_chacha_block(last.parent.key)[1]]
                ELSE [lowest_timestamp |-> MidOf(last.parent) + 1,
                      highest_timestamp |-> last.parent.highest_timestamp,
                      key |-> compute_chacha_block(last.parent.key)[2]]
        /\ contains(last.subtree, last.timestamp)

\* The full range was halved for its last timestamp: the upper half was
\* kept, with the last half of the expansion
HalvingStepWitness ==
    /\ last.op = "halved"
    /\ last.parent.lowest_timestamp = 0 /\ last.parent.highest_timestamp = MaxTs
    /\ last.timestamp = MaxTs
    /\ last.subtree.lowest_timestamp = (MaxTs + 1) \div 2
    /\ last.subtree.key = Append(HalveRoot, 1)

-----------------------------------------------------------------------------
(* The subtrees of a subscription: the loop of read_subscription that       *)
(* builds them from start_time and the depth bytes, and get_subtree that    *)
(* rebuilds them from the stored entry.  The arithmetic is that of the      *)
(* timestamp's width; where it leaves the width, a build with overflow      *)
(* checks panics and one without wraps.                                     *)

\* One pass of the loop of read_subscription for the depth byte `depth`:
\* shift is 64 - depth as a u8, the shift amount of << is taken modulo the
\* width, and each of the four operations may leave its width
read_subtree(lowest_timestamp, depth) ==
    [lowest_timestamp |-> lowest_timestamp,
     highest_timestamp |->
         (lowest_timestamp + 2^((TsBits - depth) % TsBits) - 1) % (MaxTs + 1),
     current_timestamp |->
         (lowest_timestamp + 2^((TsBits - depth) % TsBits)) % (MaxTs + 1),
     overflow |->
         \/ depth > TsBits
         \/ depth = 0
         \/ lowest_timestamp + 2^((TsBits - depth) % TsBits) > MaxTs]

\* The loop of read_subscription from depth byte i on: the subtrees built so
\* far are in `built`
RECURSIVE read_subtrees_from(_, _, _, _, _)
read_subtrees_from(depths, i, current_timestamp, overflow_checks, built) ==
    IF i > Len(depths) THEN [result |-> "Ok", subtrees |-> built.subtrees,
                             overflow |-> built.overflow]
    ELSE IF read_subtree(current_timestamp, depths[i]).overflow /\ overflow_checks
    THEN [result |-> "Panic", subtrees |-> built.subtrees, overflow |-> TRUE]
    ELSE IF read_subtree(current_timestamp, depths[i]).highest_timestamp
                < current_timestamp
    THEN [result |-> "Panic", subtrees |-> built.subtrees,
          overflow |-> built.overflow
                         \/ read_subtree(current_timestamp, depths[i]).overflow]
    ELSE read_subtrees_from(
             depths, i + 1,
             read_subtree(current_timestamp, depths[i]).current_timestamp,
             overflow_checks,
             [subtrees |-> Append(built.subtrees,
                                  [lowest_timestamp |-> current_timestamp,
                                   highest_timestamp |->
                                       read_subtree(current_timestamp,
                                                    depths[i]).highest_timestamp,
                                   depth |-> depths[i]]),
              overflow |-> built.overflow
                             \/ read_subtree(current_timestamp, depths[i]).overflow])

\* The asserts of read_subscription on the range: start_time <= end_time
\* before the loop, and the last subtree ends at end_time after it
read_subtrees_checked(end_timestamp, read) ==
    IF read.result = "Ok"
       /\ read.subtrees[Len(read.subtrees)].highest_timestamp # end_timestamp
    THEN [read EXCEPT !.result = "Panic"]
    ELSE read

\* read_subscription from start_time on, for a plaintext with at least one
\* subtree
read_subtrees(start_time, end_timestamp, depths, overflow_checks) ==
    IF start_time > end_timestamp
    THEN [result |-> "Panic", subtrees |-> <<>>, overflow |-> FALSE]
    ELSE read_subtrees_checked(
             end_timestamp,
             read_subtrees_from(depths, 1, start_time, overflow_checks,
                                [subtrees |-> <<>>, overflow |-> FALSE]))

\* get_subtree has a pass, up to the one that returns, whose 64 - depth or
\* lowest_timestamp + offset leaves its width
RECURSIVE get_subtree_overflows_from(_, _, _, _)
get_subtree_overflows_from(depths, i, current_timestamp, timestamp) ==
    IF i > Len(depths) THEN FALSE
    ELSE IF depths[i] > TsBits THEN TRUE
    ELSE IF current_timestamp + NodeOffset(depths[i]) > MaxTs THEN TRUE
    ELSE IF current_timestamp <= timestamp
            /\ timestamp <= current_timestamp + NodeOffset(depths[i])
    THEN FALSE
    ELSE get_subtree_overflows_from(
             depths, i + 1,
             (current_timestamp + NodeOffset(depths[i]) + 1) % (MaxTs + 1), timestamp)

\* The depth bytes of a plaintext: every depth of the tree, depth 0 and one
\* above the width
DepthBytes == 0..(TsBits + 1)
DepthLists == {<<d>> : d \in DepthBytes} \cup {<<d, e>> : d \in DepthBytes, e \in DepthBytes}

\* The plaintext, the build, and what the last function made of them
Subtrees(op, start_time, end_timestamp, depths, overflow_checks, result, subtrees,
         overflow) ==
    [op |-> op, start_time |-> start_time, end_time |-> end_timestamp, depths |-> depths,
     overflow_checks |-> overflow_checks, result |-> result, subtrees |-> subtrees,
     overflow |-> overflow]

InitSubtrees ==
    /\ flash = [i \in Slots |-> ErasedPage]
    /\ power = "on"
    /\ cache = NoCaches
    /\ last_decoded_timestamp = None
    /\ committed = [i \in Slots |-> None]
    /\ \E start_time \in 0..MaxTs, end_timestamp \in 0..MaxTs, depths \in DepthLists,
          overflow_checks \in BOOLEAN :
          /\ start_time <= end_timestamp
          /\ last = Subtrees("plaintext", start_time, end_timestamp, depths, overflow_checks,
                             "None", <<>>, FALSE)

\* read_subscription builds the subtrees of the plaintext
ReadSubtrees ==
    /\ last.op = "plaintext"
    /\ \E r \in {read_subtrees(last.start_time, last.end_time, last.depths,
                                last.overflow_checks)} :
          last' = [last EXCEPT !.op = "read", !.result = r.result,
                               !.subtrees = r.subtrees, !.overflow = r.overflow]
    /\ UNCHANGED <<flash, power, cache, last_decoded_timestamp, committed>>

\* get_subtree walks the depths of an accepted subscription for a timestamp
GetSubtree(timestamp) ==
    /\ last.op = "read" /\ last.result = "Ok"
    /\ last' = [last EXCEPT
                   !.op = "get_subtree",
                   !.overflow = get_subtree_overflows_from(last.depths, 1,
                                                           last.start_time, timestamp)]
    /\ UNCHANGED <<flash, power, cache, last_decoded_timestamp, committed>>

NextSubtrees == ReadSubtrees \/ \E timestamp \in 0..MaxTs : GetSubtree(timestamp)

SpecSubtrees == InitSubtrees /\ [][NextSubtrees]_vars

\* C31: the subtrees built from an accepted plaintext have lowest <= highest
\* and highest - lowest = 2^(width - depth) - 1, each starts right after the
\* one before it, and no operation of read_subscription or get_subtree
\* leaves its width, whatever the start_time and the depth bytes
SubtreesExact ==
    /\ last.op \in {"read", "get_subtree"} => ~last.overflow
    /\ (last.op = "read" /\ last.result = "Ok") =>
          /\ \A k \in 1..Len(last.subtrees) :
                /\ last.subtrees[k].depth <= TsBits
                /\ last.subtrees[k].lowest_timestamp <= last.subtrees[k].highest_timestamp
                /\ last.subtrees[k].highest_timestamp - last.subtrees[k].lowest_timestamp
                      = 2^(TsBits - last.subtrees[k].depth) - 1
          /\ \A k \in 2..Len(last.subtrees) :
                last.subtrees[k].lowest_timestamp
                    = last.subtrees[k - 1].highest_timestamp + 1

-----------------------------------------------------------------------------
(* The caches against the store                                             *)

\* entry is a node below the subtree st of a subscription: its range lies in
\* st's, and its key is st's key expanded once per halving, by the half that
\* leads to the entry's range
IsDescendant(entry, st) ==
    /\ st.lowest_timestamp <= entry.lowest_timestamp
    /\ entry.highest_timestamp <= st.highest_timestamp
    /\ Len(entry.key) > Len(st.key)
    /\ SubSeq(entry.key, 1, Len(st.key)) = st.key
    /\ entry.highest_timestamp - entry.lowest_timestamp + 1
          = 2^(TsBits - (Len(entry.key) - 1))
    /\ entry.key = NodeKey(st.key[1], Len(entry.key) - 1, entry.lowest_timestamp)

\* C33: every entry of a slot's cache is a node below a subtree of the
\* subscription the slot's page holds now, with the key derived from that
\* subtree's key; a slot with a cache holds a subscription
CacheOfStored ==
    \A i \in Slots :
        cache[i] # None =>
            /\ FlashEntry_get(flash[i]) # None
            /\ \A k \in 1..Len(cache[i][1].cache_entries) :
                  \E j \in 1..FlashEntry_get(flash[i])[1].subtree_count :
                     IsDescendant(cache[i][1].cache_entries[k],
                                  SubtreeAt(FlashEntry_get(flash[i])[1], j))

\* Keys were looked up in the slot of channel 1 after its subscription was
\* replaced by one for a narrower range, and the cache holds the leaf
CacheOfStoredWitness ==
    /\ last.op = "keys" /\ last.result = "Ok"
    /\ FlashEntry_get(flash[1]) # None
    /\ FlashEntry_get(flash[1])[1] = Subscription(1, 2, MaxTs - 2)
    /\ cache[1] # None
    /\ Len(cache[1][1].cache_entries) >= 1

-----------------------------------------------------------------------------
(* Frames that fail verification: the encoder's frames of the emergency     *)
(* channel and of a subscribed channel, and what an attacker makes of them  *)

ForgedChannels == {EMERGENCY_CHANNEL_ID, 1}
ForgedTimestamps == {1, MaxTs - 1}
ForgedFrames == FramesOf(ForgedChannels, ForgedTimestamps, ForgedTimestamps)

NextForged ==
    \/ \E frame \in ForgedFrames, acks \in BOOLEAN : Decode(frame, acks)
    \/ PowerCut
    \/ Boot

SpecForged == InitDecode /\ [][NextForged]_vars

\* A decode that got the header and the keys of the frame and whose
\* decrypt_decoder_payload failed, on the signature or on the tag
VerificationFailed ==
    /\ DecodeStep
    /\ last'.result = "InvalidEncoderPayload"
    /\ last'.timestamp # None

\* C34 as stated: a decode whose signature or tag verification fails leaves
\* last_decoded_timestamp, every flash slot and every channel cache as they
\* were
ForgedLeavesAll ==
    [][VerificationFailed =>
          /\ last_decoded_timestamp' = last_decoded_timestamp
          /\ flash' = flash
          /\ cache' = cache
      ]_vars

\* C34: a decode whose signature or tag verification fails leaves
\* last_decoded_timestamp and every flash slot as they were, and the cache of
\* every slot but the one that holds the frame's channel; the cache of that
\* slot keeps its verifying key and holds nodes below the stored
\* subscription that contain the frame's timestamp, down to its leaf
ForgedLeavesStore ==
    [][VerificationFailed =>
          /\ last_decoded_timestamp' = last_decoded_timestamp
          /\ flash' = flash
          /\ \A i \in Slots :
                IF channel_id(flash[i]) # Some(last'.channel)
                THEN cache'[i] = cache[i]
                ELSE /\ cache'[i] # None
                     /\ cache'[i][1].public_key = cache[i][1].public_key
                     /\ \A k \in 1..Len(cache'[i][1].cache_entries) :
                           /\ contains(cache'[i][1].cache_entries[k],
                                       last'.timestamp[1])
                           /\ \E j \in 1..FlashEntry_get(flash[i])[1].subtree_count :
                                 IsDescendant(cache'[i][1].cache_entries[k],
                                              SubtreeAt(FlashEntry_get(flash[i])[1], j))
                     /\ cache'[i][1].cache_entries # <<>> =>
                           cache'[i][1].cache_entries[Len(cache'[i][1].cache_entries)]
                               .highest_timestamp = last'.timestamp[1]
      ]_vars

\* A frame of channel 1 for timestamp 1 failed verification while no frame
\* had been decoded, and the slot of channel 1 holds the descent to leaf 1
ForgedLeavesStoreWitness ==
    /\ last.op = "decode" /\ last.result = "InvalidEncoderPayload"
    /\ last.channel = 1 /\ last.timestamp = Some(1)
    /\ last_decoded_timestamp = None
    /\ cache[2] # None
    /\ cache[2][1].cache_entries # <<>>
    /\ cache[2][1].cache_entries[Len(cache[2][1].cache_entries)].lowest_timestamp = 1

\* C35: a decode of a frame that passed verification and whose plaintext is
\* 1 + FRAME_DATA_SIZE bytes long ends with an error or with the Decode
\* response frame_data[0..frame_len], never with a panic, whatever frame_len
DecodeSliceInBounds ==
    last.op = "decode" =>
        /\ last.result \in DecodeErrors \cup {"Ok"}
        /\ last.result = "Ok" =>
              /\ last.response # None
              /\ Len(last.response[1]) <= FRAME_DATA_SIZE

-----------------------------------------------------------------------------
(* The Subscribe response against the store: subscribes, power cycles right *)
(* after them, listings                                                     *)

\* The results of subscribe that come before the store is written
SubscribeRefusals ==
    {"InvalidEncoderPayload", "InvalidSubscription", "CursorError", "TooManySubscriptions"}

\* The entry of the subscribe that was the last handler run, when its
\* Subscribe response went out on the wire: the host acknowledged it (Ok) or
\* did not (MessageError)
Responded ==
    IF last.op = "subscribe" /\ last.result \in {"Ok", "MessageError"}
    THEN last.entry ELSE None

\* Power is lost and returns: DecoderContext::new.  `responded` keeps what
\* the host had been told before
PowerCycle ==
    /\ power \in {"on", "panic"}
    /\ power' = IF BootPanics(flash) THEN "panic" ELSE "on"
    /\ cache' = IF BootPanics(flash) THEN NoCaches ELSE BootCaches(flash)
    /\ last_decoded_timestamp' = None
    /\ last' = [op |-> "power_cycle", responded |-> Responded]
    /\ UNCHANGED <<flash, committed>>

\* The subscribe requests: those of the store under power loss, and renewals
\* of a second channel the store holds
AckPayloads ==
    SubscribePayloads \cup {SubPayload(2, iv[1], iv[2]) : iv \in RequestIntervals}

NextAck ==
    \/ \E payload \in AckPayloads, acks \in BOOLEAN : Subscribe(payload, acks)
    \/ \E acks \in BOOLEAN : List(acks)
    \/ PowerCycle

SpecAck == Init /\ [][NextAck]_vars

\* The listing has the record of channel c from s to e
Lists(response, c, s, e) ==
    \E k \in 1..Len(response) :
        response[k] = [channel_id |-> c, start_time |-> s, end_time |-> e]

\* C36: the Subscribe response goes out only after update_subscription
\* stored the subscription: a listing that follows a power cycle right after
\* the response has the channel with the new interval; and a subscribe that
\* returns an error from before the write leaves every flash slot as it was
ResponseAfterStore ==
    [][/\ (last.op = "power_cycle" /\ last.responded # None
           /\ last'.op = "list" /\ last'.response # None) =>
             \E s \in 0..MaxTs, e \in 0..MaxTs :
                /\ s <= e
                /\ last.responded[1]
                      = Subscription(last.responded[1].channel_id, s, e)
                /\ Lists(last'.response[1], last.responded[1].channel_id, s, e)
       /\ (last'.op = "subscribe" /\ last'.result \in SubscribeRefusals) =>
             flash' = flash
      ]_vars

\* The listing after a power cycle that followed the Subscribe response for
\* a channel the store did not hold
ResponseAfterStoreWitness ==
    /\ last.op = "list" /\ last.response # None
    /\ power = "on"
    /\ Lists(last.response[1], Prefilled + 1, 0, MaxTs)
    /\ Lists(last.response[1], 1, 2, MaxTs - 2)

\* C39: read_ack returns Ok only for a header with opcode Ack and length 0,
\* and a write of an acknowledged message ends Ok only when every wait it
\* made was answered with such a header
OnlyAckIsAck ==
    /\ (last.op = "read_ack" /\ last.result = "Ok") =>
          /\ last.header.opcode = OpcodeByte["Ack"]
          /\ last.header.length = 0
    /\ (last.op = "write" /\ last.result = "Ok" /\ last.opcode \notin NACKS) =>
          \A k \in 1..(ChunkCount(last.length) + 1) :
             /\ last.replies[k].opcode = OpcodeByte["Ack"]
             /\ last.replies[k].length = 0

-----------------------------------------------------------------------------
(* The UART under the messages: Uart::read_bytes and Uart::write_bytes on   *)
(* the bytes of the link                                                    *)

\* Bytes of the link: NUL, LF, CR, a letter, 0xFF
UartBytes == {0, LF, CR, 65, 255}
UartMaxLen == 3
UartStreams ==
    UNION {[1..n -> UartBytes] : n \in 1..UartMaxLen}

\* The bytes of one transfer and what the UART function made of them
Transfer(op, bytes, buffer, tx, rest, length) ==
    [op |-> op, bytes |-> bytes, buffer |-> buffer, tx |-> tx, rest |-> rest,
     length |-> length]

InitUart ==
    /\ flash = [i \in Slots |-> ErasedPage]
    /\ power = "on"
    /\ cache = NoCaches
    /\ last_decoded_timestamp = None
    /\ committed = [i \in Slots |-> None]
    /\ \E bytes \in UartStreams :
          last = Transfer("bytes", bytes, <<>>, <<>>, <<>>, 0)

\* The host sends the bytes of a chunk and Message::read reads the chunk
ReadBytes ==
    /\ last.op = "bytes"
    /\ \E r \in {read_bytes([i \in 1..Len(last.bytes) |-> 0], last.bytes)} :
          last' = Transfer("read_bytes", last.bytes, r.buffer, r.tx, r.rest, 0)
    /\ UNCHANGED <<flash, power, cache, last_decoded_timestamp, committed>>

\* Message::write writes a chunk
WriteBytes ==
    /\ last.op = "bytes"
    /\ last' = Transfer("write_bytes", last.bytes, last.bytes, write_bytes(last.bytes),
                        <<>>, 0)
    /\ UNCHANGED <<flash, power, cache, last_decoded_timestamp, committed>>

\* The host sends the two bytes of a length and Message::read_header reads it
ReadLength ==
    /\ last.op = "bytes"
    /\ Len(last.bytes) = 2
    /\ \E r \in {read_length(last.bytes)} :
          last' = Transfer("read_length", last.bytes, <<>>, r.tx, r.rest, r.length)
    /\ UNCHANGED <<flash, power, cache, last_decoded_timestamp, committed>>

NextUart == ReadBytes \/ WriteBytes \/ ReadLength

SpecUart == InitUart /\ [][NextUart]_vars

\* C38: the bytes of a body and of a length field cross the link as they
\* are, whatever their values: a read stores every byte the host sent and
\* leaves none unread, nothing is written back to the host while reading, a
\* write puts the buffer's bytes on the link and no others, and the length
\* read is the little-endian value of the two bytes sent
LinkVerbatim ==
    /\ last.op = "read_bytes" =>
          /\ last.buffer = last.bytes
          /\ last.rest = <<>>
          /\ last.tx = <<>>
    /\ last.op = "write_bytes" => last.tx = last.bytes
    /\ last.op = "read_length" =>
          /\ last.length = last.bytes[1] + 256 * last.bytes[2]
          /\ last.rest = <<>>
          /\ last.tx = <<>>

-----------------------------------------------------------------------------
(* Subscriptions whose verifying key does not parse                         *)

\* A subscription the authority sealed for this decoder, with 32 bytes in
\* the place of the public key that are no Ed25519 point
BadKeyPayload(c, s, e) ==
    Seal(subscription_public_key.owner, SUBSCRIPTION_ENC_KEY, 0,
         [decoder_id |-> DECODER_ID],
         [Subscription(c, s, e) EXCEPT !.public_key = [owner |-> -3, valid |-> FALSE]])

BadKeyPayloads ==
    IssuedPayloads
    \cup {BadKeyPayload(c, iv[1], iv[2]) : c \in {1, Prefilled + 1}, iv \in RequestIntervals}

NextBadKey ==
    \/ \E payload \in BadKeyPayloads, acks \in BOOLEAN : Subscribe(payload, acks)
    \/ \E t \in ReplaceTimestamps : GetKeys(1, t)
    \/ \E acks \in BOOLEAN : List(acks)
    \/ PowerCut
    \/ Boot

SpecBadKey == Init /\ [][NextBadKey]_vars

\* C40: the public key of every subscription an occupied slot holds parses
\* as a verifying key, no subscribe panics with the page written, and
\* DecoderContext::new completes after every power cycle
StoredKeysParse ==
    /\ \A i \in Slots :
          FlashEntry_get(flash[i]) # None
              => FlashEntry_get(flash[i])[1].public_key.valid
    /\ power # "panic"

=============================================================================
